---------------------------- MODULE Spec2Model ----------------------------
(***************************************************************************)
(* A model of the contract analysis pipeline of src/contract_analyzer.py:  *)
(* load_models, extract_text_from_pdf, analyze_contract and                *)
(* generate_heatmap_data.  Text is a sequence of one-character strings so  *)
(* that whitespace collapsing, sentence splitting, lower-casing and        *)
(* substring search are computed as the code computes them.  The external  *)
(* collaborators (the PDF reader, the summarizer, the sentence embedder,   *)
(* cosine similarity and the PCA projection) are oracles: each call        *)
(* either raises or returns, and what it returns is drawn from a bounded   *)
(* set.                                                                    *)
(***************************************************************************)
EXTENDS Naturals, Sequences, FiniteSets

(***************************************************************************)
(* Program constants.                                                      *)
(***************************************************************************)
\* len(contract_text) < 100 is rejected
MinTextLen == 100
\* only segments with len(s) > 20 are kept
SentenceLenFloor == 20
\* np.random.rand(len(sentences), 384)
EmbeddingDim == 384
\* PCA(n_components=3)
PcaComponents == 3
\* labels longer than 50 characters are cut to 50 and "..."
LabelLimit == 50
\* risky_sentences[:10]
MaxFindings == 10
\* risk_count >= 5 is HIGH RISK
HighRiskCount == 5
\* risk_count >= 2 is MEDIUM RISK
MediumRiskCount == 2

(***************************************************************************)
(* Bounds of the model.                                                    *)
(***************************************************************************)
\* At most this many (category, sentence) pairs score above the threshold
\* in one run of the embedding-based classifier.
MaxEmbPairs == 1

\* Only the first MaxScored sentences of a document can score above the
\* threshold.
MaxScored == 1

\* A set of risky sentences larger than this comes out of list(set(...))
\* in one of two orders only.
MaxPermuted == 2

None == "None"

\* None, where the other values are records (TLC compares records only
\* with records)
NoneRecord == [none |-> TRUE]

(***************************************************************************)
(* Text: str as a sequence of one-character strings.                       *)
(***************************************************************************)
UpperChars ==
    <<"A", "B", "C", "D", "E", "F", "G", "H", "I", "J", "K", "L", "M",
      "N", "O", "P", "Q", "R", "S", "T", "U", "V", "W", "X", "Y", "Z">>

LowerChars ==
    <<"a", "b", "c", "d", "e", "f", "g", "h", "i", "j", "k", "l", "m",
      "n", "o", "p", "q", "r", "s", "t", "u", "v", "w", "x", "y", "z">>

UpperSet == {UpperChars[i] : i \in 1..Len(UpperChars)}

\* the lower-case letter of each upper-case letter
LowerOf ==
    [c \in UpperSet |-> LowerChars[CHOOSE i \in 1..Len(UpperChars) : UpperChars[i] = c]]

\* str.lower() on one character
LowerChar(c) == IF c \in UpperSet THEN LowerOf[c] ELSE c

\* s.lower()
Lower(s) == [i \in 1..Len(s) |-> LowerChar(s[i])]

\* the characters \s matches
IsSpace(c) == c \in {" ", "\n", "\t"}

\* kw in s
Contains(s, kw) ==
    \E i \in 1..(Len(s) + 1) :
        /\ i + Len(kw) - 1 <= Len(s)
        /\ SubSeq(s, i, i + Len(kw) - 1) = kw

\* re.sub(r'\s+', ' ', text): every run of whitespace becomes one space.
\* The characters kept are those that do not continue a run of whitespace.
CollapseWhitespace(text) ==
    LET idx  == [i \in 1..Len(text) |-> i]
        kept == SelectSeq(idx, LAMBDA i :
                    ~(IsSpace(text[i]) /\ i > 1 /\ IsSpace(text[i - 1])))
    IN  [k \in 1..Len(kept) |->
            IF IsSpace(text[kept[k]]) THEN " " ELSE text[kept[k]]]

\* str.strip(): leading and trailing whitespace removed
Strip(text) ==
    LET Inked == {i \in 1..Len(text) : ~IsSpace(text[i])}
    IN  IF Inked = {} THEN <<>>
        ELSE LET lo == CHOOSE i \in Inked : \A j \in Inked : i <= j
                 hi == CHOOSE i \in Inked : \A j \in Inked : j <= i
             IN  SubSeq(text, lo, hi)

\* re.sub(r'\s+', ' ', contract_text).strip()
Normalize(text) == Strip(CollapseWhitespace(text))

\* (?<=[.!?]) holds at the position after character i
IsTerminator(c) == c \in {".", "!", "?"}

\* re.split(r'(?<=[.!?])\s+', text): the text is cut at every run of
\* whitespace that directly follows a terminator; the terminator stays with
\* its sentence and the whitespace is dropped.  A separator at the end of
\* the text leaves an empty last segment, and an empty text one empty
\* segment.
SplitSentences(text) ==
    LET n   == Len(text)
        idx == [i \in 1..n |-> i]
        \* character i belongs to a separator
        sep == [i \in 1..n |->
                   /\ IsSpace(text[i])
                   /\ \E j \in 2..i :
                          /\ IsTerminator(text[j - 1])
                          /\ \A k \in j..i : IsSpace(text[k])]
        starts == SelectSeq(idx, LAMBDA i :
                      ~sep[i] /\ (i = 1 \/ sep[i - 1]))
        EndOf(b) == CHOOSE e \in b..n :
                        /\ \A k \in b..e : ~sep[k]
                        /\ (e = n \/ sep[e + 1])
        segs == [k \in 1..Len(starts) |-> SubSeq(text, starts[k], EndOf(starts[k]))]
    IN  IF n = 0 \/ sep[n] THEN Append(segs, <<>>) ELSE segs

\* Mutant of KeepLongSegments: >= in place of >
KeepSegmentsFromFloor(segs) == SelectSeq(segs, LAMBDA s : Len(s) >= SentenceLenFloor)

\* [s for s in sentences if len(s) > 20]
KeepLongSegments(segs) == SelectSeq(segs, LAMBDA s : Len(s) > SentenceLenFloor)

\* step 3: the sentences of a normalized text
Segment(text) == KeepLongSegments(SplitSentences(text))

(***************************************************************************)
(* The clause categories (step 4) and the risk phrases (step 6).           *)
(***************************************************************************)
\* the keys of the clauses dict, in insertion order
clauses ==
    <<"Payment Terms", "Termination", "Confidentiality", "Data Usage",
      "Auto Renewal", "Liability">>

keywords(clause) ==
    CASE clause = "Payment Terms" ->
        << <<"p", "a", "y", "m", "e", "n", "t">>,
           <<"f", "e", "e">>,
           <<"c", "h", "a", "r", "g", "e", "s">>,
           <<"c", "o", "s", "t">> >>
      [] clause = "Termination" ->
        << <<"t", "e", "r", "m", "i", "n", "a", "t", "e">>,
           <<"t", "e", "r", "m", "i", "n", "a", "t", "i", "o", "n">>,
           <<"c", "a", "n", "c", "e", "l">> >>
      [] clause = "Confidentiality" ->
        << <<"c", "o", "n", "f", "i", "d", "e", "n", "t", "i", "a", "l">>,
           <<"p", "r", "i", "v", "a", "c", "y">> >>
      [] clause = "Data Usage" ->
        << <<"d", "a", "t", "a">>,
           <<"t", "h", "i", "r", "d", " ", "p", "a", "r", "t", "y">>,
           <<"i", "n", "f", "o", "r", "m", "a", "t", "i", "o", "n">> >>
      [] clause = "Auto Renewal" ->
        << <<"r", "e", "n", "e", "w", "a", "l">>,
           <<"a", "u", "t", "o", "m", "a", "t", "i", "c", "a", "l", "l", "y">> >>
      [] clause = "Liability" ->
        << <<"p", "e", "n", "a", "l", "t", "y">>,
           <<"l", "i", "a", "b", "i", "l", "i", "t", "y">>,
           <<"d", "a", "m", "a", "g", "e", "s">> >>

\* Mutant of risk_phrases: "liability" in place of "no liability"
risk_phrases_any_liability ==
    << <<"w", "i", "t", "h", "o", "u", "t", " ", "n", "o", "t", "i", "c", "e">>,
       <<"s", "o", "l", "e", " ", "d", "i", "s", "c", "r", "e", "t", "i", "o", "n">>,
       <<"n", "o", "n", "-", "r", "e", "f", "u", "n", "d", "a", "b", "l", "e">>,
       <<"a", "u", "t", "o", "m", "a", "t", "i", "c", "a", "l", "l", "y", " ", "r", "e", "n", "e", "w">>,
       <<"l", "i", "a", "b", "i", "l", "i", "t", "y">>,
       <<"i", "n", "d", "e", "m", "n", "i", "f", "y">>,
       <<"u", "n", "i", "l", "a", "t", "e", "r", "a", "l">> >>

risk_phrases ==
    << <<"w", "i", "t", "h", "o", "u", "t", " ", "n", "o", "t", "i", "c", "e">>,
       <<"s", "o", "l", "e", " ", "d", "i", "s", "c", "r", "e", "t", "i", "o", "n">>,
       <<"n", "o", "n", "-", "r", "e", "f", "u", "n", "d", "a", "b", "l", "e">>,
       <<"a", "u", "t", "o", "m", "a", "t", "i", "c", "a", "l", "l", "y", " ", "r", "e", "n", "e", "w">>,
       <<"n", "o", " ", "l", "i", "a", "b", "i", "l", "i", "t", "y">>,
       <<"i", "n", "d", "e", "m", "n", "i", "f", "y">>,
       <<"u", "n", "i", "l", "a", "t", "e", "r", "a", "l">> >>

\* Mutant of HasKeyword: the sentence is not lower-cased
HasKeywordCaseSensitive(s, kws) == \E k \in 1..Len(kws) : Contains(s, kws[k])

\* any(kw in s.lower() for kw in keywords)
HasKeyword(s, kws) == \E k \in 1..Len(kws) : Contains(Lower(s), kws[k])

\* [s for s in sentences if any(kw in s.lower() for kw in keywords)]
KeywordMatched(sents, clause) ==
    SelectSeq(sents, LAMBDA s : HasKeyword(s, keywords(clause)))

(***************************************************************************)
(* dict: Python dicts keep insertion order, so a dict is a sequence of     *)
(* <<key, value>> pairs with distinct keys.                                *)
(***************************************************************************)
DictKeys(d) == [i \in 1..Len(d) |-> d[i][1]]

DictHas(d, k) == \E i \in 1..Len(d) : d[i][1] = k

\* d.get(k, default)
DictGet(d, k, default) ==
    IF DictHas(d, k) THEN d[CHOOSE i \in 1..Len(d) : d[i][1] = k][2] ELSE default

\* d[k] = v: an existing key keeps its place, a new key goes last
DictSet(d, k, v) ==
    IF DictHas(d, k)
    THEN [i \in 1..Len(d) |-> IF d[i][1] = k THEN <<k, v>> ELSE d[i]]
    ELSE Append(d, <<k, v>>)

(***************************************************************************)
(* The PDF files analyze_contract is called on: each is a sequence of      *)
(* pages, a page being the text page.extract_text() returns for it.        *)
(***************************************************************************)
\* ''
DocEmptyPage1 ==
    <<>>

\* '  \n\t '
DocBlankPage1 ==
    <<" ", " ", "\n", "\t", " ">>

\* ''
DocBlankPage2 ==
    <<>>

\* '  Payment of the FEE  is due monthly.\nThe vendor may TERMINATE this deal without notice!'
DocContractPage1 ==
    <<" ", " ", "P", "a", "y", "m", "e", "n", "t", " ", "o", "f", " ", "t", "h", "e", " ", "F",
    "E", "E", " ", " ", "i", "s", " ", "d", "u", "e", " ", "m", "o", "n", "t", "h", "l", "y",
    ".", "\n", "T", "h", "e", " ", "v", "e", "n", "d", "o", "r", " ", "m", "a", "y", " ", "T",
    "E", "R", "M", "I", "N", "A", "T", "E", " ", "t", "h", "i", "s", " ", "d", "e", "a", "l",
    " ", "w", "i", "t", "h", "o", "u", "t", " ", "n", "o", "t", "i", "c", "e", "!">>

\* 'Costs are due today.  The supplier shall indemnify the buyer?\n\n The vendor may TERMINATE this deal without notice! '
DocContractPage2 ==
    <<"C", "o", "s", "t", "s", " ", "a", "r", "e", " ", "d", "u", "e", " ", "t", "o", "d", "a",
    "y", ".", " ", " ", "T", "h", "e", " ", "s", "u", "p", "p", "l", "i", "e", "r", " ", "s",
    "h", "a", "l", "l", " ", "i", "n", "d", "e", "m", "n", "i", "f", "y", " ", "t", "h", "e",
    " ", "b", "u", "y", "e", "r", "?", "\n", "\n", " ", "T", "h", "e", " ", "v", "e", "n", "d",
    "o", "r", " ", "m", "a", "y", " ", "T", "E", "R", "M", "I", "N", "A", "T", "E", " ", "t",
    "h", "i", "s", " ", "d", "e", "a", "l", " ", "w", "i", "t", "h", "o", "u", "t", " ", "n",
    "o", "t", "i", "c", "e", "!", " ">>

\* 'The parties met in the garden on a sunny morning. Everyone enjoyed lunch near the old bridge.'
DocPlainPage1 ==
    <<"T", "h", "e", " ", "p", "a", "r", "t", "i", "e", "s", " ", "m", "e", "t", " ", "i", "n",
    " ", "t", "h", "e", " ", "g", "a", "r", "d", "e", "n", " ", "o", "n", " ", "a", " ", "s",
    "u", "n", "n", "y", " ", "m", "o", "r", "n", "i", "n", "g", ".", " ", "E", "v", "e", "r",
    "y", "o", "n", "e", " ", "e", "n", "j", "o", "y", "e", "d", " ", "l", "u", "n", "c", "h",
    " ", "n", "e", "a", "r", " ", "t", "h", "e", " ", "o", "l", "d", " ", "b", "r", "i", "d",
    "g", "e", ".">>

\* 'Birds sang loudly while guests walked home.'
DocPlainPage2 ==
    <<"B", "i", "r", "d", "s", " ", "s", "a", "n", "g", " ", "l", "o", "u", "d", "l", "y", " ",
    "w", "h", "i", "l", "e", " ", "g", "u", "e", "s", "t", "s", " ", "w", "a", "l", "k", "e",
    "d", " ", "h", "o", "m", "e", ".">>

\* 'Page one of two. See the annex now. Signed by both. Dated in May 2020. Initials go here. \n End of the record.'
DocFragmentsPage1 ==
    <<"P", "a", "g", "e", " ", "o", "n", "e", " ", "o", "f", " ", "t", "w", "o", ".", " ", "S",
    "e", "e", " ", "t", "h", "e", " ", "a", "n", "n", "e", "x", " ", "n", "o", "w", ".", " ",
    "S", "i", "g", "n", "e", "d", " ", "b", "y", " ", "b", "o", "t", "h", ".", " ", "D", "a",
    "t", "e", "d", " ", "i", "n", " ", "M", "a", "y", " ", "2", "0", "2", "0", ".", " ", "I",
    "n", "i", "t", "i", "a", "l", "s", " ", "g", "o", " ", "h", "e", "r", "e", ".", " ", "\n",
    " ", "E", "n", "d", " ", "o", "f", " ", "t", "h", "e", " ", "r", "e", "c", "o", "r", "d",
    ".">>

\* 'The licence is non-refundable.  All charges are final and due.\nEither side can cancel anytime soonxx.'
Doc100Page1 ==
    <<"T", "h", "e", " ", "l", "i", "c", "e", "n", "c", "e", " ", "i", "s", " ", "n", "o", "n",
    "-", "r", "e", "f", "u", "n", "d", "a", "b", "l", "e", ".", " ", " ", "A", "l", "l", " ",
    "c", "h", "a", "r", "g", "e", "s", " ", "a", "r", "e", " ", "f", "i", "n", "a", "l", " ",
    "a", "n", "d", " ", "d", "u", "e", ".", "\n", "E", "i", "t", "h", "e", "r", " ", "s", "i",
    "d", "e", " ", "c", "a", "n", " ", "c", "a", "n", "c", "e", "l", " ", "a", "n", "y", "t",
    "i", "m", "e", " ", "s", "o", "o", "n", "x", "x", ".">>

\* 'The licence is non-refundable.  All charges are final and due.\nEither side can cancel anytime soonx. \n  '
Doc99Page1 ==
    <<"T", "h", "e", " ", "l", "i", "c", "e", "n", "c", "e", " ", "i", "s", " ", "n", "o", "n",
    "-", "r", "e", "f", "u", "n", "d", "a", "b", "l", "e", ".", " ", " ", "A", "l", "l", " ",
    "c", "h", "a", "r", "g", "e", "s", " ", "a", "r", "e", " ", "f", "i", "n", "a", "l", " ",
    "a", "n", "d", " ", "d", "u", "e", ".", "\n", "E", "i", "t", "h", "e", "r", " ", "s", "i",
    "d", "e", " ", "c", "a", "n", " ", "c", "a", "n", "c", "e", "l", " ", "a", "n", "y", "t",
    "i", "m", "e", " ", "s", "o", "o", "n", "x", ".", " ", "\n", " ", " ">>

\* the sample text of the severity scenario, 87 characters
DocScenarioPage1 ==
    <<"T", "h", "i", "s", " ", "a", "g", "r", "e", "e", "m", "e", "n", "t", " ", "s", "h", "a",
    "l", "l", " ", "a", "u", "t", "o", "m", "a", "t", "i", "c", "a", "l", "l", "y", " ", "r",
    "e", "n", "e", "w", " ", "w", "i", "t", "h", "o", "u", "t", " ", "n", "o", "t", "i", "c",
    "e", ".", " ", "L", "i", "a", "b", "i", "l", "i", "t", "y", " ", "i", "s", " ", "c", "a",
    "p", "p", "e", "d", " ", "a", "t", " ", "$", "1", ",", "0", "0", "0", ".">>

\* 'The parties sign here today.'
DocPaddedPage2 ==
    <<"T", "h", "e", " ", "p", "a", "r", "t", "i", "e", "s", " ", "s", "i", "g", "n", " ", "h",
    "e", "r", "e", " ", "t", "o", "d", "a", "y", ".">>

\* 'Fees are NON-REFUNDABLE at all times. We indemnify nobody and may cancel without notice. Data is kept private. The vendor accepts no liability for damages.'
DocFivePage1 ==
    <<"F", "e", "e", "s", " ", "a", "r", "e", " ", "N", "O", "N", "-", "R", "E", "F", "U", "N",
    "D", "A", "B", "L", "E", " ", "a", "t", " ", "a", "l", "l", " ", "t", "i", "m", "e", "s",
    ".", " ", "W", "e", " ", "i", "n", "d", "e", "m", "n", "i", "f", "y", " ", "n", "o", "b",
    "o", "d", "y", " ", "a", "n", "d", " ", "m", "a", "y", " ", "c", "a", "n", "c", "e", "l",
    " ", "w", "i", "t", "h", "o", "u", "t", " ", "n", "o", "t", "i", "c", "e", ".", " ", "D",
    "a", "t", "a", " ", "i", "s", " ", "k", "e", "p", "t", " ", "p", "r", "i", "v", "a", "t",
    "e", ".", " ", "T", "h", "e", " ", "v", "e", "n", "d", "o", "r", " ", "a", "c", "c", "e",
    "p", "t", "s", " ", "n", "o", " ", "l", "i", "a", "b", "i", "l", "i", "t", "y", " ", "f",
    "o", "r", " ", "d", "a", "m", "a", "g", "e", "s", ".">>

\* 'The term will Automatically Renew each year.'
DocFivePage2 ==
    <<"T", "h", "e", " ", "t", "e", "r", "m", " ", "w", "i", "l", "l", " ", "A", "u", "t", "o",
    "m", "a", "t", "i", "c", "a", "l", "l", "y", " ", "R", "e", "n", "e", "w", " ", "e", "a",
    "c", "h", " ", "y", "e", "a", "r", ".">>

\* 'Renewal terms change at our sole discretion.'
DocFivePage3 ==
    <<"R", "e", "n", "e", "w", "a", "l", " ", "t", "e", "r", "m", "s", " ", "c", "h", "a", "n",
    "g", "e", " ", "a", "t", " ", "o", "u", "r", " ", "s", "o", "l", "e", " ", "d", "i", "s",
    "c", "r", "e", "t", "i", "o", "n", ".">>

\* 'Right one lapses without notice. Right two lapses without notice. Right three lapses without notice. Right four lapses without notice. Right five lapses without notice. Right twelve is a plain right.'
DocElevenPage1 ==
    <<"R", "i", "g", "h", "t", " ", "o", "n", "e", " ", "l", "a", "p", "s", "e", "s", " ", "w",
    "i", "t", "h", "o", "u", "t", " ", "n", "o", "t", "i", "c", "e", ".", " ", "R", "i", "g",
    "h", "t", " ", "t", "w", "o", " ", "l", "a", "p", "s", "e", "s", " ", "w", "i", "t", "h",
    "o", "u", "t", " ", "n", "o", "t", "i", "c", "e", ".", " ", "R", "i", "g", "h", "t", " ",
    "t", "h", "r", "e", "e", " ", "l", "a", "p", "s", "e", "s", " ", "w", "i", "t", "h", "o",
    "u", "t", " ", "n", "o", "t", "i", "c", "e", ".", " ", "R", "i", "g", "h", "t", " ", "f",
    "o", "u", "r", " ", "l", "a", "p", "s", "e", "s", " ", "w", "i", "t", "h", "o", "u", "t",
    " ", "n", "o", "t", "i", "c", "e", ".", " ", "R", "i", "g", "h", "t", " ", "f", "i", "v",
    "e", " ", "l", "a", "p", "s", "e", "s", " ", "w", "i", "t", "h", "o", "u", "t", " ", "n",
    "o", "t", "i", "c", "e", ".", " ", "R", "i", "g", "h", "t", " ", "t", "w", "e", "l", "v",
    "e", " ", "i", "s", " ", "a", " ", "p", "l", "a", "i", "n", " ", "r", "i", "g", "h", "t",
    ".">>

\* 'Right six lapses without notice. Right seven lapses without notice. Right eight lapses without notice. Right nine lapses without notice. Right ten lapses without notice. Right eleven lapses without notice.'
DocElevenPage2 ==
    <<"R", "i", "g", "h", "t", " ", "s", "i", "x", " ", "l", "a", "p", "s", "e", "s", " ", "w",
    "i", "t", "h", "o", "u", "t", " ", "n", "o", "t", "i", "c", "e", ".", " ", "R", "i", "g",
    "h", "t", " ", "s", "e", "v", "e", "n", " ", "l", "a", "p", "s", "e", "s", " ", "w", "i",
    "t", "h", "o", "u", "t", " ", "n", "o", "t", "i", "c", "e", ".", " ", "R", "i", "g", "h",
    "t", " ", "e", "i", "g", "h", "t", " ", "l", "a", "p", "s", "e", "s", " ", "w", "i", "t",
    "h", "o", "u", "t", " ", "n", "o", "t", "i", "c", "e", ".", " ", "R", "i", "g", "h", "t",
    " ", "n", "i", "n", "e", " ", "l", "a", "p", "s", "e", "s", " ", "w", "i", "t", "h", "o",
    "u", "t", " ", "n", "o", "t", "i", "c", "e", ".", " ", "R", "i", "g", "h", "t", " ", "t",
    "e", "n", " ", "l", "a", "p", "s", "e", "s", " ", "w", "i", "t", "h", "o", "u", "t", " ",
    "n", "o", "t", "i", "c", "e", ".", " ", "R", "i", "g", "h", "t", " ", "e", "l", "e", "v",
    "e", "n", " ", "l", "a", "p", "s", "e", "s", " ", "w", "i", "t", "h", "o", "u", "t", " ",
    "n", "o", "t", "i", "c", "e", ".">>

\* 'The first party keeps every record in its own office. The second party reads each record once per year there.'
DocTwoPage1 ==
    <<"T", "h", "e", " ", "f", "i", "r", "s", "t", " ", "p", "a", "r", "t", "y", " ", "k",
    "e", "e", "p", "s", " ", "e", "v", "e", "r", "y", " ", "r", "e", "c", "o", "r", "d",
    " ", "i", "n", " ", "i", "t", "s", " ", "o", "w", "n", " ", "o", "f", "f", "i", "c",
    "e", ".", " ", "T", "h", "e", " ", "s", "e", "c", "o", "n", "d", " ", "p", "a", "r",
    "t", "y", " ", "r", "e", "a", "d", "s", " ", "e", "a", "c", "h", " ", "r", "e", "c",
    "o", "r", "d", " ", "o", "n", "c", "e", " ", "p", "e", "r", " ", "y", "e", "a", "r",
    " ", "t", "h", "e", "r", "e", ".">>

\* a file pdfplumber cannot open
CorruptPdf == "corrupt.pdf"

ReadablePdfs ==
    {"empty.pdf", "blank.pdf", "contract.pdf", "plain.pdf", "fragments.pdf",
     "exactly100.pdf", "only99.pdf", "scenario.pdf", "scenario_padded.pdf",
     "four.pdf", "five.pdf", "eleven.pdf", "two.pdf"}

PdfPaths == ReadablePdfs \cup {CorruptPdf}

\* pdf.pages of a readable file
Pages(path) ==
    CASE path = "empty.pdf"      -> <<DocEmptyPage1>>
      [] path = "blank.pdf"      -> <<DocBlankPage1, DocBlankPage2>>
      [] path = "contract.pdf"   -> <<DocContractPage1, DocContractPage2>>
      [] path = "plain.pdf"      -> <<DocPlainPage1, DocPlainPage2>>
      [] path = "fragments.pdf"  -> <<DocFragmentsPage1>>
      [] path = "exactly100.pdf" -> <<Doc100Page1>>
      [] path = "only99.pdf"     -> <<Doc99Page1>>
      [] path = "scenario.pdf"   -> <<DocScenarioPage1>>
      [] path = "scenario_padded.pdf" -> <<DocScenarioPage1, DocPaddedPage2>>
      [] path = "four.pdf"       -> <<DocFivePage1, DocFivePage2>>
      [] path = "five.pdf"       -> <<DocFivePage1, DocFivePage2, DocFivePage3>>
      [] path = "eleven.pdf"     -> <<DocElevenPage1, DocElevenPage2>>
      [] path = "two.pdf"        -> <<DocTwoPage1>>

\* extract_text_from_pdf on a readable file: the text of every page that
\* has any, each followed by one space
PageText(pages) ==
    LET F[i \in 0..Len(pages)] ==
            IF i = 0 THEN <<>>
            ELSE IF pages[i] # <<>>
                 THEN F[i - 1] \o pages[i] \o <<" ">>
                 ELSE F[i - 1]
    IN  F[Len(pages)]

(***************************************************************************)
(* Embedding sets.  embedder.encode(sentences) returns one row per         *)
(* sentence (and an array without a second axis for an empty list);        *)
(* np.random.rand(n, 384) is the placeholder.  The numbers themselves are  *)
(* not modelled.                                                           *)
(***************************************************************************)
Encoded(n) ==
    [kind |-> "encoded", rows |-> n, cols |-> IF n = 0 THEN 0 ELSE EmbeddingDim]

\* Mutant of RandomEmbeddings: the two dimensions swapped
RandomEmbeddingsTransposed(sents) ==
    [kind |-> "random", rows |-> EmbeddingDim, cols |-> Len(sents)]

\* np.random.rand(len(sentences), 384)
RandomEmbeddings(sents) ==
    [kind |-> "random", rows |-> Len(sents), cols |-> EmbeddingDim]

\* the number of matched sentences held by a dict of clause matches
TotalMatched(d) ==
    LET F[i \in 0..Len(d)] == IF i = 0 THEN 0 ELSE F[i - 1] + Len(d[i][2])
    IN  F[Len(d)]

\* [sentences[i] for i, s in enumerate(scores) if s > 0.45], for the set S of
\* indexes whose score is above the threshold
ScoredAbove(sents, S) ==
    LET idx == [i \in 1..Len(sents) |-> i]
        sel == SelectSeq(idx, LAMBDA i : i \in S)
    IN  [k \in 1..Len(sel) |-> sents[sel[k]]]

\* Mutant of KeywordLoop: a category that already has matches keeps them
KeywordLoopKeepsMatches(d, sents) ==
    LET F[i \in 0..Len(clauses)] ==
            IF i = 0 THEN d
            ELSE LET matched == KeywordMatched(sents, clauses[i])
                 IN  IF matched # <<>> /\ ~DictHas(F[i - 1], clauses[i])
                     THEN DictSet(F[i - 1], clauses[i], matched)
                     ELSE F[i - 1]
    IN  F[Len(clauses)]

\* the keyword loop of both fallbacks, from dict d on: every category with
\* a keyword match is set to its keyword matches
KeywordLoop(d, sents) ==
    LET F[i \in 0..Len(clauses)] ==
            IF i = 0 THEN d
            ELSE LET matched == KeywordMatched(sents, clauses[i])
                 IN  IF matched # <<>>
                     THEN DictSet(F[i - 1], clauses[i], matched)
                     ELSE F[i - 1]
    IN  F[Len(clauses)]

(***************************************************************************)
(* State.  The first three variables are the module's globals; the rest    *)
(* are the locals of one call of analyze_contract (and of the call of      *)
(* generate_heatmap_data it makes), pc being its position.  raised and     *)
(* embedding_matched are history: the stages that raised in this call, and *)
(* what line 115 computed for each category the embedding loop finished.   *)
(***************************************************************************)
VARIABLES
    SENTENCE_TRANSFORMERS_AVAILABLE, _summarizer, _embedder,
    pc, pdf_path, summarizer, embedder, contract_text, summary_result,
    sentences, sentence_embeddings, detected_clauses, clause_i,
    embedding_matched, risky_sentences, risk_level, risk_emoji, risks,
    clause_names, heatmap1, heatmap2, heatmap3, raised, result, first_run,
    thread, constructed, cached,
    pdf_pc, report_data, pdf_heatmap_data, heatmaps_to_show,
    poll_pc, retry_count, failed_in_a_row, observed, poll_result,
    request, uploads,
    users, session, reports, response

globals == <<SENTENCE_TRANSFORMERS_AVAILABLE, _summarizer, _embedder>>

\* the calls of load_models by the threads of the server, the number of
\* times each constructor has returned, and which construction is cached
loaderVars == <<thread, constructed, cached>>

\* download_report and generate_contract_pdf: the stored report, the list
\* handed to the generator and the list it renders
reportVars == <<pdf_pc, report_data, pdf_heatmap_data, heatmaps_to_show>>

\* process_meeting_audio: its position, retry_count, the result it returns,
\* and as history the last poll and the failed polls in a row up to now
pollVars == <<poll_pc, retry_count, failed_in_a_row, observed, poll_result>>

\* analyze_contract_endpoint: the requests being served and the files of
\* the upload folder
uploadVars == <<request, uploads>>

\* the users and reports tables, the session of each client, and the last
\* response to a report request
accessVars == <<users, session, reports, response>>

\* the state outside analyze_contract
elsewhere == <<loaderVars, reportVars, pollVars, uploadVars, accessVars>>

textVars == <<contract_text, summary_result, sentences>>

clauseVars == <<sentence_embeddings, detected_clauses, clause_i, embedding_matched>>

riskVars == <<risky_sentences, risk_level, risk_emoji, risks>>

heatmapVars == <<clause_names, heatmap1, heatmap2, heatmap3>>

\* the locals of a call of analyze_contract
analyzeCall ==
    <<pc, pdf_path, summarizer, embedder, textVars, clauseVars, riskVars, heatmapVars,
      raised, result, first_run>>

analyzerVars == <<globals, analyzeCall>>

\* what each of the other operations leaves alone
besidesLoader == <<analyzeCall, reportVars, pollVars, uploadVars, accessVars>>

besidesReport == <<analyzerVars, loaderVars, pollVars, uploadVars, accessVars>>

besidesPoll == <<analyzerVars, loaderVars, reportVars, uploadVars, accessVars>>

besidesUpload == <<analyzerVars, loaderVars, reportVars, pollVars, accessVars>>

besidesAccess == <<analyzerVars, loaderVars, reportVars, pollVars, uploadVars>>

vars ==
    <<SENTENCE_TRANSFORMERS_AVAILABLE, _summarizer, _embedder,
      pc, pdf_path, summarizer, embedder, contract_text, summary_result,
      sentences, sentence_embeddings, detected_clauses, clause_i,
      embedding_matched, risky_sentences, risk_level, risk_emoji, risks,
      clause_names, heatmap1, heatmap2, heatmap3, raised, result, first_run,
      elsewhere>>

\* the threads that serve requests, and the calls each of them makes
MaxThreads == 2

MaxCalls == 2

Threads == 1..MaxThreads

\* no thread is in load_models and nothing has been constructed
LoaderIdle ==
    /\ thread = [t \in Threads |-> [pc |-> "idle", calls |-> 0, returned |-> <<>>]]
    /\ constructed = [summarizer |-> 0, embedder |-> 0]
    /\ cached = [summarizer |-> 0, embedder |-> 0]

\* no report is being downloaded
ReportIdle ==
    /\ pdf_pc = "idle"
    /\ report_data = NoneRecord
    /\ pdf_heatmap_data = <<>>
    /\ heatmaps_to_show = <<>>

\* no meeting is being processed
PollIdle ==
    /\ poll_pc = "idle"
    /\ retry_count = 0
    /\ failed_in_a_row = 0
    /\ observed = None
    /\ poll_result = NoneRecord

\* the clients of the server
MaxClients == 2

Clients == 1..MaxClients

\* the file names the clients give their uploads
RawNames == {"a.pdf", "../a.pdf", "b.pdf", "notes.txt"}

\* werkzeug's secure_filename on these names: path separators and leading
\* dots are dropped
secure_filename == [n \in RawNames |-> IF n = "../a.pdf" THEN "a.pdf" ELSE n]

\* the paths below CONTRACT_UPLOAD_FOLDER a request can save to
UploadPaths == {"a.pdf", "b.pdf"}

\* no request is in analyze_contract_endpoint; status is the outcome of
\* analyze_contract and bytes the client whose upload it read
NoRequest == [pc |-> "idle", filepath |-> None, status |-> None, bytes |-> 0]

\* no upload is being served and the upload folder is empty: a path holds
\* the number of the client whose bytes were saved last, or 0
UploadIdle ==
    /\ request = [c \in Clients |-> NoRequest]
    /\ uploads = [p \in UploadPaths |-> 0]

\* nobody is registered or logged in, and there is no report
AccessIdle ==
    /\ users = <<>>
    /\ session = [c \in Clients |-> NoneRecord]
    /\ reports = <<>>
    /\ response = NoneRecord

ElsewhereIdle == LoaderIdle /\ ReportIdle /\ PollIdle /\ UploadIdle /\ AccessIdle

\* the locals before a call
FreshLocals ==
    /\ pdf_path = None
    /\ summarizer = None
    /\ embedder = None
    /\ contract_text = <<>>
    /\ summary_result = NoneRecord
    /\ sentences = <<>>
    /\ sentence_embeddings = NoneRecord
    /\ detected_clauses = <<>>
    /\ clause_i = 0
    /\ embedding_matched = <<>>
    /\ risky_sentences = <<>>
    /\ risk_level = None
    /\ risk_emoji = None
    /\ risks = <<>>
    /\ clause_names = <<>>
    /\ heatmap1 = NoneRecord
    /\ heatmap2 = NoneRecord
    /\ heatmap3 = NoneRecord
    /\ raised = {}
    /\ result = NoneRecord

\* the locals are dropped when the call returns
DropLocals ==
    /\ pdf_path' = None
    /\ summarizer' = None
    /\ embedder' = None
    /\ contract_text' = <<>>
    /\ summary_result' = NoneRecord
    /\ sentences' = <<>>
    /\ sentence_embeddings' = NoneRecord
    /\ detected_clauses' = <<>>
    /\ clause_i' = 0
    /\ embedding_matched' = <<>>
    /\ risky_sentences' = <<>>
    /\ risk_level' = None
    /\ risk_emoji' = None
    /\ risks' = <<>>
    /\ clause_names' = <<>>
    /\ heatmap1' = NoneRecord
    /\ heatmap2' = NoneRecord
    /\ heatmap3' = NoneRecord
    /\ raised' = {}
    /\ result' = NoneRecord

\* analyze_contract is not running
AnalyzerIdle ==
    /\ SENTENCE_TRANSFORMERS_AVAILABLE = TRUE
    /\ _summarizer = None
    /\ _embedder = None
    /\ pc = "idle"
    /\ FreshLocals
    /\ first_run = NoneRecord

Init ==
    /\ SENTENCE_TRANSFORMERS_AVAILABLE \in BOOLEAN
    /\ _summarizer = None
    /\ _embedder = None
    /\ pc = "idle"
    /\ FreshLocals
    /\ first_run = NoneRecord
    /\ ElsewhereIdle

(***************************************************************************)
(* analyze_contract: the call, and its except clause (lines 196-200).      *)
(***************************************************************************)
Call(p) ==
    /\ pc = "idle"
    /\ pdf_path' = p
    /\ pc' = "load_models"
    /\ UNCHANGED <<elsewhere, first_run, globals, summarizer, embedder, textVars, clauseVars, riskVars,
                   heatmapVars, raised, result>>

\* line 198: the error-tagged result for exception e.  An error string is
\* the sequence of its parts.
AnalysisFailed(e) == [error |-> <<"Analysis failed: ", e>>]

\* Mutant of AnalyzeExcept: the exception leaves analyze_contract
AnalyzeExceptReraises(e) ==
    /\ raised' = raised \cup {e}
    /\ result' = [exception |-> e]
    /\ pc' = "done"

\* except Exception as e: return {'error': ...}, for an exception raised
\* by stage e inside the try of analyze_contract
AnalyzeExcept(e) ==
    /\ raised' = raised \cup {e}
    /\ result' = AnalysisFailed(e)
    /\ pc' = "done"

(***************************************************************************)
(* load_models (lines 22-41).  Either constructor may raise; the           *)
(* summarizer is cached before the embedder is constructed.                *)
(***************************************************************************)
LoadModels ==
    /\ pc = "load_models"
    /\ \E sumRaises, embRaises \in BOOLEAN :
        LET needSum == _summarizer = None
            needEmb == _embedder = None /\ SENTENCE_TRANSFORMERS_AVAILABLE
        IN  /\ (~needSum => ~sumRaises)
            /\ (~needEmb \/ sumRaises => ~embRaises)
            /\ _summarizer' = IF needSum /\ ~sumRaises THEN "summarizer" ELSE _summarizer
            /\ _embedder' = IF needEmb /\ ~sumRaises /\ ~embRaises
                            THEN "embedder" ELSE _embedder
            /\ IF sumRaises \/ embRaises
               THEN /\ AnalyzeExcept("load_models")
                    /\ UNCHANGED <<summarizer, embedder>>
               ELSE /\ summarizer' = _summarizer'
                    /\ embedder' = _embedder'
                    /\ pc' = "extract"
                    /\ UNCHANGED <<raised, result>>
    /\ UNCHANGED <<elsewhere, first_run, SENTENCE_TRANSFORMERS_AVAILABLE, pdf_path, textVars, clauseVars,
                   riskVars, heatmapVars>>

(***************************************************************************)
(* Step 1: extract_text_from_pdf, whitespace normalization and the         *)
(* sufficiency test (lines 69-77).                                         *)
(***************************************************************************)
\* Mutant of SufficientText: <= in place of <
SufficientTextOver(text) == text # <<>> /\ ~(Len(text) <= MinTextLen)

\* not (not contract_text or len(contract_text) < 100)
SufficientText(text) == text # <<>> /\ ~(Len(text) < MinTextLen)

InsufficientTextResult ==
    [error |-> <<"Could not extract sufficient text from PDF. Please ensure the PDF contains readable text.">>]

\* Mutant of ExtractText: the insufficient-text branch builds the error
\* result but does not return
ExtractTextKeepsGoing ==
    /\ pc = "extract"
    /\ IF pdf_path = CorruptPdf
       THEN /\ AnalyzeExcept("extract_text_from_pdf")
            /\ UNCHANGED contract_text
       ELSE /\ contract_text' = Normalize(PageText(Pages(pdf_path)))
            /\ result' = IF SufficientText(contract_text')
                         THEN result ELSE InsufficientTextResult
            /\ pc' = "summarize"
            /\ UNCHANGED raised
    /\ UNCHANGED <<elsewhere, first_run, globals, pdf_path, summarizer, embedder, summary_result, sentences,
                   clauseVars, riskVars, heatmapVars>>

ExtractText ==
    /\ pc = "extract"
    /\ IF pdf_path = CorruptPdf
       THEN /\ AnalyzeExcept("extract_text_from_pdf")
            /\ UNCHANGED contract_text
       ELSE /\ contract_text' = Normalize(PageText(Pages(pdf_path)))
            /\ IF SufficientText(contract_text')
               THEN /\ pc' = "summarize"
                    /\ UNCHANGED result
               ELSE /\ result' = InsufficientTextResult
                    /\ pc' = "done"
            /\ UNCHANGED raised
    /\ UNCHANGED <<elsewhere, first_run, globals, pdf_path, summarizer, embedder, summary_result, sentences,
                   clauseVars, riskVars, heatmapVars>>

(***************************************************************************)
(* Steps 2 and 3: the summary (lines 79-88) and the sentences (90-92).     *)
(***************************************************************************)
Summarize ==
    /\ pc = "summarize"
    /\ \E raises \in BOOLEAN :
        IF raises
        THEN /\ AnalyzeExcept("summarizer")
             /\ UNCHANGED <<summary_result, sentences>>
        ELSE /\ summary_result' = "summary_text"
             /\ sentences' = Segment(contract_text)
             /\ pc' = "detect"
             /\ UNCHANGED <<raised, result>>
    /\ UNCHANGED <<elsewhere, first_run, globals, pdf_path, summarizer, embedder, contract_text,
                   clauseVars, riskVars, heatmapVars>>

(***************************************************************************)
(* Step 5: clause detection (lines 104-137).  With an embedder the         *)
(* sentences are encoded and the categories scored one after the other     *)
(* inside one try; its except clause runs the keyword loop over every      *)
(* category.  Without an embedder only the keyword loop runs.              *)
(***************************************************************************)
\* if embedder and SENTENCE_TRANSFORMERS_AVAILABLE
UseEmbedder == embedder # None /\ SENTENCE_TRANSFORMERS_AVAILABLE

\* line 111
EncodeSentences ==
    /\ pc = "detect"
    /\ UseEmbedder
    /\ \E raises \in BOOLEAN :
        IF raises
        THEN /\ raised' = raised \cup {"encode"}
             /\ pc' = "detect_except"
             /\ UNCHANGED <<sentence_embeddings, clause_i>>
        ELSE /\ sentence_embeddings' = Encoded(Len(sentences))
             /\ clause_i' = 1
             /\ pc' = "classify"
             /\ UNCHANGED raised
    /\ UNCHANGED <<elsewhere, first_run, globals, pdf_path, summarizer, embedder, textVars, detected_clauses,
                   embedding_matched, riskVars, heatmapVars, result>>

\* lines 113-117 for the category clauses[clause_i]: the keyword embedding
\* or the similarity may raise; otherwise the sentences scoring above 0.45
\* are the matches
ClassifyClause ==
    /\ pc = "classify"
    /\ \/ /\ raised' = raised \cup {"similarity"}
          /\ pc' = "detect_except"
          /\ UNCHANGED <<detected_clauses, clause_i, embedding_matched>>
       \/ \E S \in SUBSET (1..(IF Len(sentences) < MaxScored
                               THEN Len(sentences) ELSE MaxScored)) :
            LET matched == ScoredAbove(sentences, S)
            IN  /\ Cardinality(S) + TotalMatched(detected_clauses) <= MaxEmbPairs
                /\ detected_clauses' =
                       IF matched # <<>>
                       THEN DictSet(detected_clauses, clauses[clause_i], matched)
                       ELSE detected_clauses
                /\ embedding_matched' =
                       Append(embedding_matched, <<clauses[clause_i], matched>>)
                /\ IF clause_i < Len(clauses)
                   THEN /\ clause_i' = clause_i + 1
                        /\ pc' = "classify"
                   ELSE /\ clause_i' = clause_i
                        /\ pc' = "risk"
                /\ UNCHANGED raised
    /\ UNCHANGED <<elsewhere, first_run, globals, pdf_path, summarizer, embedder, textVars,
                   sentence_embeddings, riskVars, heatmapVars, result>>

\* lines 118-129: the except clause of the embedding-based detection
DetectExcept ==
    /\ pc = "detect_except"
    /\ detected_clauses' = KeywordLoop(detected_clauses, sentences)
    /\ \E raises \in BOOLEAN :
        /\ sentence_embeddings' =
               IF raises THEN RandomEmbeddings(sentences) ELSE Encoded(Len(sentences))
        /\ raised' = IF raises THEN raised \cup {"encode_again"} ELSE raised
    /\ pc' = "risk"
    /\ UNCHANGED <<elsewhere, first_run, globals, pdf_path, summarizer, embedder, textVars, clause_i,
                   embedding_matched, riskVars, heatmapVars, result>>

\* lines 130-137: no embedder
KeywordOnly ==
    /\ pc = "detect"
    /\ ~UseEmbedder
    /\ detected_clauses' = KeywordLoop(detected_clauses, sentences)
    /\ sentence_embeddings' = RandomEmbeddings(sentences)
    /\ pc' = "risk"
    /\ UNCHANGED <<elsewhere, first_run, globals, pdf_path, summarizer, embedder, textVars, clause_i,
                   embedding_matched, riskVars, heatmapVars, raised, result>>

(***************************************************************************)
(* Steps 6-8: risky sentences, risk level and findings (lines 139-176).    *)
(***************************************************************************)
\* the generator of lines 146-147: s for s in sentences for p in
\* risk_phrases if p in s.lower(); a sentence is yielded once for every
\* phrase it holds
RiskyMatches(sents) ==
    LET P == Len(risk_phrases)
        idx == [n \in 1..(Len(sents) * P) |-> n]
        sent(n) == sents[((n - 1) \div P) + 1]
        phrase(n) == risk_phrases[((n - 1) % P) + 1]
        hits == SelectSeq(idx, LAMBDA n : Contains(Lower(sent(n)), phrase(n)))
    IN  [k \in 1..Len(hits) |-> sent(hits[k])]

\* the elements of seq in the order of their first occurrence
Distinct(seq) ==
    LET idx == [i \in 1..Len(seq) |-> i]
        first == SelectSeq(idx, LAMBDA i : \A j \in 1..(i - 1) : seq[j] # seq[i])
    IN  [k \in 1..Len(first) |-> seq[first[k]]]

Reverse(q) == [i \in 1..Len(q) |-> q[Len(q) + 1 - i]]

\* Mutant of Orderings: list(...) of the generator, without set(...)
OrderingsWithoutSet(gen) == {gen}

\* list(set(gen)): the distinct elements of gen in an order the hash table
\* determines.  A set of at most MaxPermuted elements comes out in any
\* order; of the orders of a larger set only two are followed, the order
\* of first occurrence in gen and its reverse.
Orderings(gen) ==
    LET S == {gen[i] : i \in 1..Len(gen)}
    IN  IF Cardinality(S) <= MaxPermuted
        THEN {o \in [1..Cardinality(S) -> S] :
                 \A i, j \in 1..Cardinality(S) : o[i] = o[j] => i = j}
        ELSE {Distinct(gen), Reverse(Distinct(gen))}

\* Mutant of RiskLevel: > in place of >=
RiskLevelStrict(n) ==
    IF n > HighRiskCount THEN "HIGH RISK"
    ELSE IF n > MediumRiskCount THEN "MEDIUM RISK"
    ELSE "LOW RISK"

\* lines 151-160
RiskLevel(n) ==
    IF n >= HighRiskCount THEN "HIGH RISK"
    ELSE IF n >= MediumRiskCount THEN "MEDIUM RISK"
    ELSE "LOW RISK"

RiskEmoji(n) ==
    IF n >= HighRiskCount THEN "red circle"
    ELSE IF n >= MediumRiskCount THEN "orange circle"
    ELSE "green circle"

\* ["automatically renew", "without notice"]
critical_phrases == <<risk_phrases[4], risk_phrases[1]>>

\* ["no liability", "indemnify"]
high_phrases == <<risk_phrases[5], risk_phrases[6]>>

\* Mutant of RiskType: the two tests in the other order
RiskTypeHighFirst(s) ==
    IF \E k \in 1..Len(high_phrases) : Contains(Lower(s), high_phrases[k])
    THEN "High Risk"
    ELSE IF \E k \in 1..Len(critical_phrases) : Contains(Lower(s), critical_phrases[k])
    THEN "Critical Risk"
    ELSE "Caution"

\* lines 166-170
RiskType(s) ==
    IF \E k \in 1..Len(critical_phrases) : Contains(Lower(s), critical_phrases[k])
    THEN "Critical Risk"
    ELSE IF \E k \in 1..Len(high_phrases) : Contains(Lower(s), high_phrases[k])
    THEN "High Risk"
    ELSE "Caution"

\* line 174
RiskCategory(s) ==
    IF Contains(Lower(s), <<"r", "e", "n", "e", "w">>) THEN "Auto-Renewal" ELSE "Liability"

\* s[:n]
Take(s, n) == SubSeq(s, 1, IF n < Len(s) THEN n ELSE Len(s))

\* Mutant of Findings: no limit on the number of findings
FindingsUncapped(risky) ==
    [k \in 1..Len(risky) |->
        [type |-> RiskType(risky[k]),
         category |-> RiskCategory(risky[k]),
         description |-> risky[k]]]

\* lines 163-176
Findings(risky) ==
    LET shown == Take(risky, MaxFindings)
    IN  [k \in 1..Len(shown) |->
            [type |-> RiskType(shown[k]),
             category |-> RiskCategory(shown[k]),
             description |-> shown[k]]]

DetectRisks ==
    /\ pc = "risk"
    /\ \E order \in Orderings(RiskyMatches(sentences)) :
        /\ risky_sentences' = order
        /\ risk_level' = RiskLevel(Len(order))
        /\ risk_emoji' = RiskEmoji(Len(order))
        /\ risks' = Findings(order)
    /\ pc' = "heatmap"
    /\ UNCHANGED <<elsewhere, first_run, globals, pdf_path, summarizer, embedder, textVars, clauseVars,
                   heatmapVars, raised, result>>

(***************************************************************************)
(* Step 9: generate_heatmap_data (lines 202-356).  Coordinates computed by *)
(* PCA are not modelled as numbers: <<"pc1", i>> stands for the first      *)
(* principal coordinate of row i, and Num(n) for the literal coordinate n  *)
(* of a lattice or a placeholder.  Intensities are kept in tenths.         *)
(***************************************************************************)
Num(n) == <<"num", n>>

\* line 207
AllClauseNames ==
    <<"Payment Terms", "Termination", "Confidentiality", "Data Usage",
      "Auto Renewal", "Liability">>

\* Mutant of ClauseNames: the categories that were not detected are
\* appended to the detected ones
ClauseNamesWithUndetected(detected) ==
    DictKeys(detected)
        \o SelectSeq(AllClauseNames, LAMBDA c : ~DictHas(detected, c))

\* lines 205-207
ClauseNames(detected) ==
    IF DictKeys(detected) = <<>> THEN AllClauseNames ELSE DictKeys(detected)

\* clause_count * 0.3, * 0.6 and * 1, in tenths, for rows 0, 1, 2
RowWeightTenths == <<3, 6, 10>>

\* Mutant of Surface: a category counts its matched sentences that are
\* risky, not all of them
SurfaceCountingRisky(names, detected) ==
    [type  |-> "surface",
     title |-> "3D Contract Risk Surface",
     data  |->
        [x |-> [r \in 1..3 |-> [i \in 1..Len(names) |-> i - 1]],
         y |-> [r \in 1..3 |-> [i \in 1..Len(names) |-> r - 1]],
         z |-> [r \in 1..3 |-> [i \in 1..Len(names) |->
                    Len(SelectSeq(DictGet(detected, names[i], <<>>),
                                  LAMBDA m : \E k \in 1..Len(risky_sentences) :
                                                risky_sentences[k] = m))
                        * RowWeightTenths[r]]],
         clause_names |-> names,
         risk_levels  |-> <<"Low", "Medium", "High">>]]

\* Mutant of Surface: Z indexed [i][row] in place of [row][i]
SurfaceTransposed(names, detected) ==
    [type  |-> "surface",
     title |-> "3D Contract Risk Surface",
     data  |->
        [x |-> [r \in 1..3 |-> [i \in 1..Len(names) |-> i - 1]],
         y |-> [r \in 1..3 |-> [i \in 1..Len(names) |-> r - 1]],
         z |-> [i \in 1..Len(names) |-> [r \in 1..3 |->
                    Len(DictGet(detected, names[i], <<>>)) * RowWeightTenths[r]]],
         clause_names |-> names,
         risk_levels  |-> <<"Low", "Medium", "High">>]]

\* lines 209-231
Surface(names, detected) ==
    [type  |-> "surface",
     title |-> "3D Contract Risk Surface",
     data  |->
        [x |-> [r \in 1..3 |-> [i \in 1..Len(names) |-> i - 1]],
         y |-> [r \in 1..3 |-> [i \in 1..Len(names) |-> r - 1]],
         z |-> [r \in 1..3 |-> [i \in 1..Len(names) |->
                    Len(DictGet(detected, names[i], <<>>)) * RowWeightTenths[r]]],
         clause_names |-> names,
         risk_levels  |-> <<"Low", "Medium", "High">>]]

\* Mutant of PcaFeasible: the decomposition accepts any number of rows
PcaAnyRows(rows, cols) == PcaComponents <= cols

\* PCA(n_components=3).fit_transform on rows x cols data raises unless
\* 3 <= min(rows, cols)
PcaFeasible(rows, cols) == PcaComponents <= rows /\ PcaComponents <= cols

\* lines 238-245: fewer than 3 columns are zero-padded to 3
PaddedCols(cols) == IF cols >= PcaComponents THEN cols ELSE PcaComponents

\* Mutant of Label: a sentence of exactly 50 characters is cut as well
LabelFromLimit(s) ==
    IF Len(s) >= LabelLimit THEN SubSeq(s, 1, LabelLimit) \o <<".", ".", ".">> ELSE s

\* line 248
Label(s) ==
    IF Len(s) > LabelLimit THEN SubSeq(s, 1, LabelLimit) \o <<".", ".", ".">> ELSE s

\* lines 247-260, for pca_points of n rows
ScatterCloud(n, sents, risky) ==
    LET colors == [i \in 1..Len(sents) |->
                      IF \E k \in 1..Len(risky) : risky[k] = sents[i]
                      THEN "red" ELSE "green"]
        sentence_texts == [i \in 1..Len(sents) |-> Label(sents[i])]
    IN  [type  |-> "scatter3d",
         title |-> "3D PCA Risk Cloud (Semantic Clause Space)",
         data  |->
            [x |-> [i \in 1..n |-> <<"pc1", i>>],
             y |-> [i \in 1..n |-> <<"pc2", i>>],
             z |-> [i \in 1..n |-> <<"pc3", i>>],
             colors |-> Take(colors, n),
             texts  |-> Take(sentence_texts, n)]]

\* lines 317-327
ScatterPlaceholder ==
    [type  |-> "scatter3d",
     title |-> "3D PCA Risk Cloud (Semantic Clause Space)",
     data  |->
        [x |-> [i \in 1..5 |-> Num(i - 1)],
         y |-> [i \in 1..5 |-> Num(i - 1)],
         z |-> [i \in 1..5 |-> Num(i - 1)],
         colors |-> <<"red", "green", "red", "green", "red">>,
         \* 'Risk clause 1', 'Safe clause 1', 'Risk clause 2', 'Safe clause 2',
         \* 'Risk clause 3'
         texts  |->
            << <<"R", "i", "s", "k", " ", "c", "l", "a", "u", "s", "e", " ", "1">>,
               <<"S", "a", "f", "e", " ", "c", "l", "a", "u", "s", "e", " ", "1">>,
               <<"R", "i", "s", "k", " ", "c", "l", "a", "u", "s", "e", " ", "2">>,
               <<"S", "a", "f", "e", " ", "c", "l", "a", "u", "s", "e", " ", "2">>,
               <<"R", "i", "s", "k", " ", "c", "l", "a", "u", "s", "e", " ", "3">> >>]]

\* lines 269-282
ProjectedMesh(names) ==
    [type  |-> "mesh3d",
     title |-> "3D Clause Semantic Mesh Topology",
     data  |->
        [x |-> [i \in 1..Len(names) |-> <<"pc1", i>>],
         y |-> [i \in 1..Len(names) |-> <<"pc2", i>>],
         z |-> [i \in 1..Len(names) |-> <<"pc3", i>>],
         clause_names |-> names]]

\* Mutant of LatticeMesh: the second coordinate repeats the first
LatticeMeshDiagonal(names) ==
    [type  |-> "mesh3d",
     title |-> "3D Clause Semantic Mesh Topology",
     data  |->
        [x |-> [k \in 1..Len(names) |-> Num((k - 1) % 3)],
         y |-> [k \in 1..Len(names) |-> Num((k - 1) % 3)],
         z |-> [k \in 1..Len(names) |-> Num((k - 1) \div 9)],
         clause_names |-> names]]

\* lines 290-303: [i % 3, (i // 3) % 3, i // 9] for i in range(num_clauses)
LatticeMesh(names) ==
    [type  |-> "mesh3d",
     title |-> "3D Clause Semantic Mesh Topology",
     data  |->
        [x |-> [k \in 1..Len(names) |-> Num((k - 1) % 3)],
         y |-> [k \in 1..Len(names) |-> Num(((k - 1) \div 3) % 3)],
         z |-> [k \in 1..Len(names) |-> Num((k - 1) \div 9)],
         clause_names |-> names]]

\* lines 336-345
MeshPlaceholder(names) ==
    [type  |-> "mesh3d",
     title |-> "3D Clause Semantic Mesh Topology",
     data  |->
        [x |-> [i \in 1..6 |-> Num(i - 1)],
         y |-> [i \in 1..6 |-> Num(i - 1)],
         z |-> [i \in 1..6 |-> Num(i - 1)],
         clause_names |->
            IF Len(names) >= 6 THEN Take(names, 6)
            ELSE names \o [k \in 1..(6 - Len(names)) |-> "Additional Clause"]]]

\* lines 312-328: heatmap2, or its placeholder
ScatterOrPlaceholder(h2) == IF h2 # NoneRecord THEN <<h2>> ELSE <<ScatterPlaceholder>>

\* Mutant of MeshOrPlaceholder: a missing heatmap3 is left out
MeshOrNothing(h3, names) == IF h3 # NoneRecord THEN <<h3>> ELSE <<>>

\* lines 331-346: heatmap3, or its placeholder
MeshOrPlaceholder(h3, names) == IF h3 # NoneRecord THEN <<h3>> ELSE <<MeshPlaceholder(names)>>

\* lines 309-352
FinalHeatmaps(h1, h2, h3, names) ==
    Take(<<h1>> \o ScatterOrPlaceholder(h2) \o MeshOrPlaceholder(h3, names), 3)

\* lines 185-194
SuccessResult(heatmap_data) ==
    [status |-> "success",
     summary |-> summary_result,
     risk_level |-> risk_level,
     risk_emoji |-> risk_emoji,
     risks |-> risks,
     risky_sentences |-> risky_sentences,
     detected_clauses |->
        [i \in 1..Len(detected_clauses) |->
            <<detected_clauses[i][1], Len(detected_clauses[i][2])>>],
     heatmap_data |-> heatmap_data]

\* lines 354-356 and 183-194: an exception that reaches the outer except of
\* generate_heatmap_data makes it return [], which analyze_contract returns
\* as the heatmap_data of a success result
GenerateHeatmapExcept(e) ==
    /\ raised' = raised \cup {e}
    /\ result' = SuccessResult(<<>>)
    /\ pc' = "done"

\* lines 180-231: the guard on sentence_embeddings, the clause names and
\* the surface
HeatmapSurface ==
    /\ pc = "heatmap"
    /\ sentence_embeddings' =
           IF sentence_embeddings = NoneRecord
           THEN RandomEmbeddings(sentences) ELSE sentence_embeddings
    /\ clause_names' = ClauseNames(detected_clauses)
    /\ heatmap1' = Surface(clause_names', detected_clauses)
    /\ pc' = "scatter"
    /\ UNCHANGED <<elsewhere, first_run, globals, pdf_path, summarizer, embedder, textVars, detected_clauses,
                   clause_i, embedding_matched, riskVars, heatmap2, heatmap3, raised,
                   result>>

\* Mutant of ScatterExcept: the exception is not caught in
\* generate_heatmap_data and reaches the except clause of analyze_contract
ScatterExceptUncaught ==
    /\ AnalyzeExcept("pca")
    /\ heatmap2' = NoneRecord

\* Mutant of ScatterExcept: the exception reaches the outer except clause
\* of generate_heatmap_data
ScatterExceptOuter ==
    /\ GenerateHeatmapExcept("pca")
    /\ heatmap2' = NoneRecord

\* Mutant of ScatterExcept: the mesh is not generated after a failed
\* scatter cloud
ScatterExceptSkipsMesh ==
    /\ raised' = raised \cup {"pca"}
    /\ heatmap2' = NoneRecord
    /\ pc' = "assemble"
    /\ UNCHANGED result

\* lines 261-263: the except clause of the scatter cloud
ScatterExcept ==
    /\ raised' = raised \cup {"pca"}
    /\ heatmap2' = NoneRecord
    /\ pc' = "mesh"
    /\ UNCHANGED result

\* lines 233-263
HeatmapScatter ==
    /\ pc = "scatter"
    /\ IF sentence_embeddings # NoneRecord /\ sentence_embeddings.rows > 0
       THEN \E raises \in BOOLEAN :
              /\ ~PcaFeasible(sentence_embeddings.rows,
                              PaddedCols(sentence_embeddings.cols)) => raises
              /\ IF raises
                 THEN ScatterExcept
                 ELSE /\ heatmap2' = ScatterCloud(sentence_embeddings.rows,
                                                  sentences, risky_sentences)
                      /\ pc' = "mesh"
                      /\ UNCHANGED <<raised, result>>
       ELSE /\ pc' = "mesh"
            /\ UNCHANGED <<heatmap2, raised, result>>
    /\ UNCHANGED <<elsewhere, first_run, globals, pdf_path, summarizer, embedder, textVars, clauseVars,
                   riskVars, clause_names, heatmap1, heatmap3>>

\* Mutant of MeshExcept: a failed projection falls back to the lattice
MeshExceptTriesLattice ==
    /\ raised' = raised \cup {"mesh"}
    /\ heatmap3' = LatticeMesh(clause_names)
    /\ pc' = "assemble"
    /\ UNCHANGED result

\* lines 283-285: the except clause of the projected mesh
MeshExcept ==
    /\ raised' = raised \cup {"mesh"}
    /\ heatmap3' = NoneRecord
    /\ pc' = "assemble"
    /\ UNCHANGED result

\* lines 304-305: the except clause of the lattice layout
LatticeExcept ==
    /\ raised' = raised \cup {"lattice"}
    /\ heatmap3' = NoneRecord
    /\ pc' = "assemble"
    /\ UNCHANGED result

\* lines 265-305
HeatmapMesh ==
    /\ pc = "mesh"
    /\ IF UseEmbedder
       THEN \E raises \in BOOLEAN :
              /\ ~PcaFeasible(Len(clause_names), EmbeddingDim) => raises
              /\ IF raises
                 THEN MeshExcept
                 ELSE /\ heatmap3' = ProjectedMesh(clause_names)
                      /\ pc' = "assemble"
                      /\ UNCHANGED <<raised, result>>
       ELSE \E raises \in BOOLEAN :
              IF raises
              THEN LatticeExcept
              ELSE /\ heatmap3' = LatticeMesh(clause_names)
                   /\ pc' = "assemble"
                   /\ UNCHANGED <<raised, result>>
    /\ UNCHANGED <<elsewhere, first_run, globals, pdf_path, summarizer, embedder, textVars, clauseVars,
                   riskVars, clause_names, heatmap1, heatmap2>>

\* lines 307-352 and 183-194: the three heatmaps, and the success result
HeatmapAssemble ==
    /\ pc = "assemble"
    /\ result' = SuccessResult(FinalHeatmaps(heatmap1, heatmap2, heatmap3, clause_names))
    /\ pc' = "done"
    /\ UNCHANGED <<elsewhere, first_run, globals, pdf_path, summarizer, embedder, textVars, clauseVars,
                   riskVars, heatmapVars, raised>>

\* the caller has the result; the locals of the call are gone
Return ==
    /\ pc = "done"
    /\ pc' = "idle"
    /\ DropLocals
    /\ UNCHANGED <<elsewhere, first_run, globals>>

Next ==
    \/ \E p \in PdfPaths : Call(p)
    \/ LoadModels
    \/ ExtractText
    \/ Summarize
    \/ EncodeSentences
    \/ ClassifyClause
    \/ DetectExcept
    \/ KeywordOnly
    \/ DetectRisks
    \/ HeatmapSurface
    \/ HeatmapScatter
    \/ HeatmapMesh
    \/ HeatmapAssemble
    \/ Return

Spec == Init /\ [][Next]_vars

(***************************************************************************)
(* generate_heatmap_data called twice, as a function of its five           *)
(* arguments (line 202).  The arguments are drawn from what analyses of    *)
(* three of the sample documents hand to it; the second call has clause    *)
(* matches with the same categories and counts as the first, and any       *)
(* sentences, embeddings, risky sentences and embedder.  first_run keeps   *)
(* the first call's clause matches, sentences, embedder and surface.       *)
(***************************************************************************)
GeneratorDocs == {"plain.pdf", "exactly100.pdf", "contract.pdf"}

\* the sentences of each document, and the orders of its risky sentences
GeneratorSentences == [p \in GeneratorDocs |-> Segment(Normalize(PageText(Pages(p))))]

GeneratorRisky == [p \in GeneratorDocs |-> Orderings(RiskyMatches(GeneratorSentences[p]))]

SentencesOf(p) == GeneratorSentences[p]

\* detected_clauses as the keyword loop builds it, empty, or with the
\* document's first sentence as the one match of Payment Terms
DetectedInputs ==
    {<<>>}
        \cup {KeywordLoop(<<>>, SentencesOf(p)) : p \in GeneratorDocs}
        \cup {<< <<clauses[1], <<SentencesOf(p)[1]>> >> >> : p \in GeneratorDocs}

\* {k: len(v) for k, v in detected_clauses.items()}
Counts(d) == [i \in 1..Len(d) |-> <<d[i][1], Len(d[i][2])>>]

\* the locals of analyze_contract at line 183, for the arguments given
GeneratorArguments(d, p, random, risky, e) ==
    /\ detected_clauses = d
    /\ sentences = SentencesOf(p)
    /\ sentence_embeddings = IF random THEN RandomEmbeddings(SentencesOf(p))
                                       ELSE Encoded(Len(SentencesOf(p)))
    /\ risky_sentences = risky
    /\ risk_level = RiskLevel(Len(risky))
    /\ risk_emoji = RiskEmoji(Len(risky))
    /\ risks = Findings(risky)
    /\ embedder = e
    /\ _embedder = e

\* the same locals at the second call
NextGeneratorArguments(d, p, random, risky, e) ==
    /\ detected_clauses' = d
    /\ sentences' = SentencesOf(p)
    /\ sentence_embeddings' = IF random THEN RandomEmbeddings(SentencesOf(p))
                                        ELSE Encoded(Len(SentencesOf(p)))
    /\ risky_sentences' = risky
    /\ risk_level' = RiskLevel(Len(risky))
    /\ risk_emoji' = RiskEmoji(Len(risky))
    /\ risks' = Findings(risky)
    /\ embedder' = e
    /\ _embedder' = e

InitGenerator ==
    /\ SENTENCE_TRANSFORMERS_AVAILABLE \in BOOLEAN
    /\ _summarizer = "summarizer"
    /\ summarizer = "summarizer"
    /\ pc = "heatmap"
    /\ pdf_path = None
    /\ contract_text = <<>>
    /\ summary_result = "summary_text"
    /\ \E d \in DetectedInputs, p \in GeneratorDocs, random \in BOOLEAN,
          e \in {None, "embedder"} :
          \E risky \in GeneratorRisky[p] :
              GeneratorArguments(d, p, random, risky, e)
    /\ clause_i = 0
    /\ embedding_matched = <<>>
    /\ clause_names = <<>>
    /\ heatmap1 = NoneRecord
    /\ heatmap2 = NoneRecord
    /\ heatmap3 = NoneRecord
    /\ raised = {}
    /\ result = NoneRecord
    /\ first_run = NoneRecord
    /\ ElsewhereIdle

\* the second call
RunAgain ==
    /\ pc = "done"
    /\ first_run = NoneRecord
    /\ first_run' = [detected_clauses |-> detected_clauses,
                     sentences |-> sentences,
                     embedder |-> embedder,
                     surface |-> result.heatmap_data[1]]
    /\ \E d \in DetectedInputs, p \in GeneratorDocs, random \in BOOLEAN,
          e \in {None, "embedder"} :
          \E risky \in GeneratorRisky[p] :
              /\ Counts(d) = Counts(detected_clauses)
              /\ NextGeneratorArguments(d, p, random, risky, e)
    /\ clause_names' = <<>>
    /\ heatmap1' = NoneRecord
    /\ heatmap2' = NoneRecord
    /\ heatmap3' = NoneRecord
    /\ raised' = {}
    /\ result' = NoneRecord
    /\ pc' = "heatmap"
    /\ UNCHANGED <<elsewhere, SENTENCE_TRANSFORMERS_AVAILABLE, _summarizer, summarizer,
                   pdf_path, contract_text, summary_result, clause_i, embedding_matched>>

NextGenerator ==
    \/ HeatmapSurface
    \/ HeatmapScatter
    \/ HeatmapMesh
    \/ HeatmapAssemble
    \/ RunAgain

SpecGenerator == InitGenerator /\ [][NextGenerator]_vars

(***************************************************************************)
(* load_models under the threads of the server (app.run serves each        *)
(* request in a thread of its own, and analyze_contract calls load_models  *)
(* first, line 67).  A thread can be suspended between any two statements  *)
(* of lines 26-41, so each test and each construction is a step.  An       *)
(* instance is identified by the number of its construction;               *)
(* thread[t].returned lists what each call of thread t returned.           *)
(***************************************************************************)
InitThreads ==
    /\ SENTENCE_TRANSFORMERS_AVAILABLE \in BOOLEAN
    /\ _summarizer = None
    /\ _embedder = None
    /\ pc = "idle"
    /\ FreshLocals
    /\ first_run = NoneRecord
    /\ ElsewhereIdle

\* thread t moves to position p
Goto(t, p) == thread' = [thread EXCEPT ![t].pc = p]

\* the call of thread t ends with outcome r
EndCall(t, r) ==
    thread' = [thread EXCEPT ![t] = [pc |-> "idle",
                                     calls |-> @.calls + 1,
                                     returned |-> Append(@.returned, r)]]

\* line 67: a request calls load_models
EnterLoadModels(t) ==
    /\ thread[t].pc = "idle"
    /\ thread[t].calls < MaxCalls
    /\ Goto(t, "test_summarizer")
    /\ UNCHANGED <<globals, constructed, cached, besidesLoader>>

\* line 26: if _summarizer is None
TestSummarizer(t) ==
    /\ thread[t].pc = "test_summarizer"
    /\ Goto(t, IF _summarizer = None THEN "construct_summarizer" ELSE "test_embedder")
    /\ UNCHANGED <<globals, constructed, cached, besidesLoader>>

\* line 28: _summarizer = pipeline(...), or lines 38-40 when it raises
ConstructSummarizer(t) ==
    /\ thread[t].pc = "construct_summarizer"
    /\ \E raises \in BOOLEAN :
          IF raises
          THEN /\ EndCall(t, NoneRecord)
               /\ UNCHANGED <<globals, constructed, cached>>
          ELSE /\ constructed' = [constructed EXCEPT !.summarizer = @ + 1]
               /\ cached' = [cached EXCEPT !.summarizer = constructed'.summarizer]
               /\ _summarizer' = "summarizer"
               /\ Goto(t, "test_embedder")
               /\ UNCHANGED <<SENTENCE_TRANSFORMERS_AVAILABLE, _embedder>>
    /\ UNCHANGED besidesLoader

\* lines 30-37: if _embedder is None: if SENTENCE_TRANSFORMERS_AVAILABLE
TestEmbedder(t) ==
    /\ thread[t].pc = "test_embedder"
    /\ Goto(t, IF _embedder = None /\ SENTENCE_TRANSFORMERS_AVAILABLE
               THEN "construct_embedder" ELSE "return")
    /\ UNCHANGED <<globals, constructed, cached, besidesLoader>>

\* line 33: _embedder = SentenceTransformer(...), or lines 38-40
ConstructEmbedder(t) ==
    /\ thread[t].pc = "construct_embedder"
    /\ \E raises \in BOOLEAN :
          IF raises
          THEN /\ EndCall(t, NoneRecord)
               /\ UNCHANGED <<globals, constructed, cached>>
          ELSE /\ constructed' = [constructed EXCEPT !.embedder = @ + 1]
               /\ cached' = [cached EXCEPT !.embedder = constructed'.embedder]
               /\ _embedder' = "embedder"
               /\ Goto(t, "return")
               /\ UNCHANGED <<SENTENCE_TRANSFORMERS_AVAILABLE, _summarizer>>
    /\ UNCHANGED besidesLoader

\* line 41: return _summarizer, _embedder
ReturnModels(t) ==
    /\ thread[t].pc = "return"
    /\ EndCall(t, cached)
    /\ UNCHANGED <<globals, constructed, cached, besidesLoader>>

NextThreads ==
    \E t \in Threads :
        \/ EnterLoadModels(t)
        \/ TestSummarizer(t)
        \/ ConstructSummarizer(t)
        \/ TestEmbedder(t)
        \/ ConstructEmbedder(t)
        \/ ReturnModels(t)

SpecThreads == InitThreads /\ [][NextThreads]_vars

(***************************************************************************)
(* download_report and generate_contract_pdf (src/app.py lines 217-234,    *)
(* src/report_generator.py lines 272-326): the heatmap list of a stored    *)
(* report is handed to the generator, which completes it to the list       *)
(* heatmaps_to_show that is rendered.  The stored list is any list of at   *)
(* most MaxStored datasets.                                                *)
(***************************************************************************)
MaxStored == 3

\* datasets as analyze_contract stores them
StoredDatasets ==
    {Surface(<<"Liability", "Payment Terms">>, <<>>),
     Surface(AllClauseNames, <<>>),
     ScatterPlaceholder,
     LatticeMesh(<<"Liability", "Payment Terms">>)}

StoredLists ==
    UNION {[1..n -> StoredDatasets] : n \in 0..MaxStored}

\* lines 282-292 of report_generator.py; z in tenths
SurfaceFallback ==
    [type  |-> "surface",
     title |-> "3D Contract Risk Surface",
     data  |->
        [x |-> << <<0, 1, 2>>, <<0, 1, 2>>, <<0, 1, 2>> >>,
         y |-> << <<0, 0, 0>>, <<1, 1, 1>>, <<2, 2, 2>> >>,
         z |-> << <<5, 10, 8>>, <<12, 15, 13>>, <<20, 25, 22>> >>,
         clause_names |-> <<"Payment Terms", "Termination", "Confidentiality">>,
         risk_levels  |-> <<"Low", "Medium", "High">>]]

\* [h.get('type', '') for h in heatmaps_to_show], line 278
TypesOf(hs) == {hs[i].type : i \in 1..Len(hs)}

\* lines 272-326 of report_generator.py
HeatmapsToShow(heatmap_data) ==
    LET taken == IF Len(heatmap_data) > 0 THEN Take(heatmap_data, 3) ELSE <<>>
        heatmap_types == TypesOf(taken)
        withSurface ==
            IF "surface" \notin heatmap_types THEN <<SurfaceFallback>> \o taken ELSE taken
        withScatter ==
            IF "scatter3d" \notin heatmap_types
            THEN Append(withSurface, ScatterPlaceholder) ELSE withSurface
        names ==
            IF "clause_names" \in DOMAIN withScatter[1].data
            THEN withScatter[1].data.clause_names ELSE AllClauseNames
        withMesh ==
            IF "mesh3d" \notin heatmap_types
            THEN Append(withScatter, MeshPlaceholder(names)) ELSE withScatter
    IN  Take(withMesh, 3)

InitReport ==
    /\ AnalyzerIdle
    /\ LoaderIdle
    /\ PollIdle
    /\ UploadIdle
    /\ AccessIdle
    /\ pdf_pc = "stored"
    /\ report_data \in
          {[status |-> "success"]}
              \cup {[status |-> "success", heatmap_data |-> hd] : hd \in StoredLists}
    /\ pdf_heatmap_data = <<>>
    /\ heatmaps_to_show = <<>>

\* app.py lines 217-234: heatmap_data = report_data.get('heatmap_data', [])
DownloadReport ==
    /\ pdf_pc = "stored"
    /\ pdf_heatmap_data' =
          IF "heatmap_data" \in DOMAIN report_data THEN report_data.heatmap_data ELSE <<>>
    /\ pdf_pc' = "generate"
    /\ UNCHANGED <<report_data, heatmaps_to_show, besidesReport>>

\* generate_contract_pdf, up to the list it renders
GenerateContractPdf ==
    /\ pdf_pc = "generate"
    /\ heatmaps_to_show' = HeatmapsToShow(pdf_heatmap_data)
    /\ pdf_pc' = "rendered"
    /\ UNCHANGED <<report_data, pdf_heatmap_data, besidesReport>>

NextReport == DownloadReport \/ GenerateContractPdf

SpecReport == InitReport /\ [][NextReport]_vars

(***************************************************************************)
(* process_meeting_audio (src/meeting_processor.py lines 41-95): the       *)
(* upload, and the loop that polls the state of the uploaded file.  Each   *)
(* poll either raises or reports a state; nothing constrains the sequence  *)
(* of outcomes.  failed_in_a_row counts the polls that ended in the except *)
(* clause since the last poll that did not.                                *)
(***************************************************************************)
RetryLimit == 10

\* genai.get_file raises ("error"), or audio_file.state.name
PollOutcomes == {"ACTIVE", "FAILED", "PROCESSING", "STATE_UNSPECIFIED", "error"}

\* lines 54-65
UploadErrors == {"API quota exceeded", "Invalid API key", "Upload failed"}

\* lines 92-94
TimedOutResult ==
    [error |-> <<"File processing timed out after 10 retries. Please try again.">>]

InitPoll ==
    /\ AnalyzerIdle
    /\ LoaderIdle
    /\ ReportIdle
    /\ UploadIdle
    /\ AccessIdle
    /\ poll_pc = "upload"
    /\ retry_count = 0
    /\ failed_in_a_row = 0
    /\ observed = None
    /\ poll_result = NoneRecord

\* lines 46-70: genai.upload_file, and retry_count = 0
UploadFile ==
    /\ poll_pc = "upload"
    /\ \/ \E e \in UploadErrors :
            /\ poll_result' = [error |-> <<e>>]
            /\ poll_pc' = "returned"
       \/ /\ poll_pc' = "polling"
          /\ UNCHANGED poll_result
    /\ retry_count' = 0
    /\ UNCHANGED <<failed_in_a_row, observed, besidesPoll>>

\* lines 72-95: one iteration of while True
Poll ==
    /\ poll_pc = "polling"
    /\ \E outcome \in PollOutcomes :
          /\ observed' = outcome
          /\ IF outcome = "ACTIVE"
             THEN \* break
                  /\ poll_pc' = "analyze"
                  /\ failed_in_a_row' = 0
                  /\ UNCHANGED <<retry_count, poll_result>>
             ELSE IF outcome \in {"FAILED", "error"}
             THEN \* raise ValueError, or get_file raised: the except clause
                  /\ retry_count' = retry_count + 1
                  /\ failed_in_a_row' = failed_in_a_row + 1
                  /\ IF retry_count' > RetryLimit
                     THEN /\ poll_result' = TimedOutResult
                          /\ poll_pc' = "returned"
                     ELSE UNCHANGED <<poll_pc, poll_result>>
             ELSE \* PROCESSING sleeps 5 s; any other state falls through
                  /\ failed_in_a_row' = 0
                  /\ UNCHANGED <<poll_pc, retry_count, poll_result>>
    /\ UNCHANGED besidesPoll

NextPoll == UploadFile \/ Poll

SpecPoll == InitPoll /\ [][NextPoll]_vars

\* the loop keeps running while the function has not returned: the thread
\* is scheduled again after each time.sleep(5)
SpecPollFair == SpecPoll /\ WF_vars(NextPoll)

(***************************************************************************)
(* analyze_contract_endpoint (src/app.py lines 336-426) served for several *)
(* logged-in clients at once, each request in a thread of its own: the     *)
(* checks and file.save, then analyze_contract reading the saved file,     *)
(* then os.remove.  The rest of the handler (the PDF, the reports row and  *)
(* the response) does not touch the upload folder.                         *)
(***************************************************************************)
InitUploads ==
    /\ AnalyzerIdle
    /\ LoaderIdle
    /\ ReportIdle
    /\ PollIdle
    /\ AccessIdle
    /\ UploadIdle

\* lines 341-358: the extension check, secure_filename and file.save
ReceiveUpload(c, raw) ==
    /\ request[c].pc \in {"idle", "responded"}
    /\ IF secure_filename[raw] \in UploadPaths
       THEN /\ request' = [request EXCEPT ![c] =
                              [pc |-> "saved", filepath |-> secure_filename[raw],
                               status |-> None, bytes |-> 0]]
            /\ uploads' = [uploads EXCEPT ![secure_filename[raw]] = c]
       ELSE \* 'Invalid file type. Please upload a PDF file.'
            /\ request' = [request EXCEPT ![c] =
                              [pc |-> "responded", filepath |-> None,
                               status |-> "invalid file type", bytes |-> 0]]
            /\ UNCHANGED uploads
    /\ UNCHANGED besidesUpload

\* line 362: analyze_contract(filepath) opens the file at that path; a
\* missing file ends in its error result
AnalyzeSaved(c) ==
    /\ request[c].pc = "saved"
    /\ request' = [request EXCEPT ![c] =
                      [pc |-> "analyzed", filepath |-> @.filepath,
                       status |-> IF uploads[@.filepath] = 0 THEN "error" ELSE "success",
                       bytes |-> uploads[@.filepath]]]
    /\ UNCHANGED <<uploads, besidesUpload>>

\* lines 365-368: os.remove(filepath), errors ignored
RemoveUpload(c) ==
    /\ request[c].pc = "analyzed"
    /\ uploads' = [uploads EXCEPT ![request[c].filepath] = 0]
    /\ request' = [request EXCEPT ![c].pc = "responded"]
    /\ UNCHANGED besidesUpload

NextUploads ==
    \E c \in Clients :
        \/ \E raw \in RawNames : ReceiveUpload(c, raw)
        \/ AnalyzeSaved(c)
        \/ RemoveUpload(c)

SpecUploads == InitUploads /\ [][NextUploads]_vars

(***************************************************************************)
(* The account and report routes of src/app.py: register_user, login_user, *)
(* logout, analyze_contract_endpoint (its reports row, lines 397-411),     *)
(* view_report and download_report, requested in any order by the clients. *)
(* A user's id is its position in users and a report's id its position in  *)
(* reports, as AUTOINCREMENT assigns them.  session[c] is the session      *)
(* cookie of client c.  response is the answer to the last report request, *)
(* with the session it was made under.  The sqlite3 calls do not raise.    *)
(***************************************************************************)
Emails == {"ann@example.com", "bob@example.com"}

MaxReports == 2

InitAccess ==
    /\ AnalyzerIdle
    /\ LoaderIdle
    /\ ReportIdle
    /\ PollIdle
    /\ UploadIdle
    /\ AccessIdle

\* 'user_id' in session
LoggedIn(c) == "user_id" \in DOMAIN session[c]

\* SELECT id FROM users WHERE email = ?
UserIds(email) == {i \in 1..Len(users) : users[i] = email}

\* lines 257-299: a new email is inserted and the session logged in
register_user(c, email) ==
    /\ UserIds(email) = {}
    /\ users' = Append(users, email)
    /\ session' = [session EXCEPT ![c] = [user_id |-> Len(users'), email |-> email]]
    /\ UNCHANGED <<reports, response, besidesAccess>>

\* lines 301-333: a registered email with its password logs the session in
login_user(c, email, password_ok) ==
    /\ IF UserIds(email) # {} /\ password_ok
       THEN session' = [session EXCEPT ![c] =
                           [user_id |-> CHOOSE i \in UserIds(email) : TRUE,
                            email |-> email]]
       ELSE UNCHANGED session
    /\ UNCHANGED <<users, reports, response, besidesAccess>>

\* lines 133-136: session.clear()
logout(c) ==
    /\ session' = [session EXCEPT ![c] = NoneRecord]
    /\ UNCHANGED <<users, reports, response, besidesAccess>>

\* lines 336-411: behind require_login, a successful analysis is stored
\* with the user_id of the session
StoreReport(c) ==
    /\ LoggedIn(c)
    /\ Len(reports) < MaxReports
    /\ reports' = Append(reports,
                         [user_id |-> session[c].user_id,
                          report_type |-> "contract",
                          report_data |-> <<"analysis", Len(reports) + 1>>])
    /\ UNCHANGED <<users, session, response, besidesAccess>>

\* Mutant of OwnedRows: the row is selected by its id alone
RowsById(report_id, user_id) == {i \in 1..Len(reports) : i = report_id}

\* SELECT ... FROM reports WHERE id = ? AND user_id = ?  (lines 172, 201)
OwnedRows(report_id, user_id) ==
    {i \in 1..Len(reports) : i = report_id /\ reports[i].user_id = user_id}

Redirect(c, route, report_id) ==
    [client |-> c, route |-> route, report_id |-> report_id, session |-> session[c],
     status |-> 302, body |-> <<"redirect", "login">>]

NotFound(c, route, report_id) ==
    [client |-> c, route |-> route, report_id |-> report_id, session |-> session[c],
     status |-> 404, body |-> <<"error", "Report not found">>]

Found(c, route, report_id, row) ==
    [client |-> c, route |-> route, report_id |-> report_id, session |-> session[c],
     status |-> 200, body |-> <<"report", reports[row]>>]

\* lines 86-94 and 165-192
view_report(c, report_id) ==
    /\ IF ~LoggedIn(c)
       THEN response' = Redirect(c, "view_report", report_id)
       ELSE LET rows == OwnedRows(report_id, session[c].user_id)
            IN  IF rows = {}
                THEN response' = NotFound(c, "view_report", report_id)
                ELSE response' = Found(c, "view_report", report_id, CHOOSE i \in rows : TRUE)
    /\ UNCHANGED <<users, session, reports, besidesAccess>>

\* lines 86-94 and 194-254: the PDF is regenerated from the row and sent,
\* or is missing
download_report(c, report_id) ==
    /\ IF ~LoggedIn(c)
       THEN response' = Redirect(c, "download_report", report_id)
       ELSE LET rows == OwnedRows(report_id, session[c].user_id)
            IN  IF rows = {}
                THEN response' = NotFound(c, "download_report", report_id)
                ELSE \E pdf_exists \in BOOLEAN :
                        response' =
                            IF pdf_exists
                            THEN Found(c, "download_report", report_id,
                                       CHOOSE i \in rows : TRUE)
                            ELSE [NotFound(c, "download_report", report_id)
                                     EXCEPT !.body = <<"error", "PDF file not found">>]
    /\ UNCHANGED <<users, session, reports, besidesAccess>>

NextAccess ==
    \E c \in Clients :
        \/ \E email \in Emails : register_user(c, email)
        \/ \E email \in Emails, password_ok \in BOOLEAN : login_user(c, email, password_ok)
        \/ logout(c)
        \/ StoreReport(c)
        \/ \E report_id \in 1..MaxReports : view_report(c, report_id)
        \/ \E report_id \in 1..MaxReports : download_report(c, report_id)

SpecAccess == InitAccess /\ [][NextAccess]_vars

(***************************************************************************)
(* The shapes of the values analyze_contract returns.                      *)
(***************************************************************************)
Returned == pc = "done"

IsErrorResult(r) == DOMAIN r = {"error"}

SuccessFields ==
    {"status", "summary", "risk_level", "risk_emoji", "risks", "risky_sentences",
     "detected_clauses", "heatmap_data"}

IsSuccessResult(r) == DOMAIN r = SuccessFields /\ r.status = "success"

HeatmapTypes(hd) == [i \in 1..Len(hd) |-> hd[i].type]

(***************************************************************************)
(* C1.  Every success result carries exactly three heatmaps whose types    *)
(* are surface, scatter3d, mesh3d in that order, with or without an        *)
(* embedder and whichever stages raised.                                   *)
(***************************************************************************)
C1_ThreeHeatmapsInOrder ==
    Returned /\ "status" \in DOMAIN result =>
        /\ Len(result.heatmap_data) = 3
        /\ HeatmapTypes(result.heatmap_data) = <<"surface", "scatter3d", "mesh3d">>

\* a success result of a run with an embedder in which both the PCA of the
\* scatter cloud and the mesh projection raised
C1_Witness ==
    /\ Returned
    /\ IsSuccessResult(result)
    /\ UseEmbedder
    /\ {"pca", "mesh"} \subseteq raised

(***************************************************************************)
(* C2.  analyze_contract never raises: whatever stage raised, the caller   *)
(* gets a success result or a dict that carries only 'error'.              *)
(***************************************************************************)
C2_NeverRaises ==
    Returned => IsSuccessResult(result) \/ IsErrorResult(result)

\* model loading raised and the caller got an error result
C2_Witness ==
    /\ Returned
    /\ "load_models" \in raised
    /\ IsErrorResult(result)

(***************************************************************************)
(* C3.  As claimed: a top-level error result is returned only when         *)
(* extraction fails or yields insufficient text, and a summarizer failure  *)
(* yields a success result.                                                *)
(***************************************************************************)
\* extraction ran on a readable file and its normalized text is too short
InsufficientText ==
    /\ "load_models" \notin raised
    /\ pdf_path # CorruptPdf
    /\ Len(contract_text) < MinTextLen

C3_ErrorOnlyFromExtraction ==
    Returned =>
        /\ IsErrorResult(result) =>
               "extract_text_from_pdf" \in raised \/ InsufficientText
        /\ "summarizer" \in raised => IsSuccessResult(result)

(***************************************************************************)
(* C3, amended.  An error result is returned exactly when model loading    *)
(* raises, extraction raises or yields insufficient text, or the           *)
(* summarizer raises; a failure of any later stage (sentence encoding,     *)
(* similarity, PCA, mesh projection) yields a success result with every    *)
(* field present and three heatmaps.                                       *)
(***************************************************************************)
C3_ErrorExactlyFromEarlyStages ==
    Returned =>
        /\ IsErrorResult(result) <=>
               \/ raised \cap {"load_models", "extract_text_from_pdf", "summarizer"} # {}
               \/ InsufficientText
        /\ ~IsErrorResult(result) =>
               /\ IsSuccessResult(result)
               /\ result.summary = "summary_text"
               /\ result.risk_level \in {"LOW RISK", "MEDIUM RISK", "HIGH RISK"}
               /\ Len(result.heatmap_data) = 3

\* a success result of a run in which the sentence encoding raised twice
\* and the PCA raised
C3_Witness ==
    /\ Returned
    /\ IsSuccessResult(result)
    /\ {"encode", "encode_again", "pca"} \subseteq raised

(***************************************************************************)
(* C4.  A returned value is a dict with only 'error' or a success result   *)
(* with every field and a heatmap_data of three elements; never a success  *)
(* result whose heatmap_data is missing, empty or shorter.                 *)
(***************************************************************************)
C4_TwoShapes ==
    Returned =>
        \/ /\ IsErrorResult(result)
           /\ result.error # <<>>
        \/ /\ IsSuccessResult(result)
           /\ Len(result.heatmap_data) = 3
           /\ \A i \in 1..3 : DOMAIN result.heatmap_data[i] = {"type", "title", "data"}

\* a success result whose scatter cloud and mesh are both placeholders
C4_Witness ==
    /\ Returned
    /\ IsSuccessResult(result)
    /\ result.heatmap_data[2] = ScatterPlaceholder
    /\ result.heatmap_data[3] = MeshPlaceholder(clause_names)

(***************************************************************************)
(* C5.  The heatmaps are generated independently.  The surface is the one  *)
(* computed from the clause matches and the mesh is what the mesh stage    *)
(* alone determines (by the embedder, the clause names and whether the     *)
(* mesh projection raised), whether or not the scatter cloud raised; a     *)
(* failed scatter cloud is replaced by its placeholder.                    *)
(***************************************************************************)
\* the intensity of category i in row r, computed from the match counts
ExpectedIntensity(r, name) ==
    LET at == {i \in 1..Len(detected_clauses) : detected_clauses[i][1] = name}
        n  == IF at = {} THEN 0 ELSE Len(detected_clauses[CHOOSE i \in at : TRUE][2])
    IN  n * <<3, 6, 10>>[r]

ExpectedMesh ==
    IF UseEmbedder
    THEN IF "mesh" \in raised
         THEN MeshPlaceholder(clause_names)
         ELSE ProjectedMesh(clause_names)
    ELSE IF "lattice" \in raised
         THEN MeshPlaceholder(clause_names)
         ELSE LatticeMesh(clause_names)

C5_IndependentHeatmaps ==
    Returned /\ "status" \in DOMAIN result =>
        LET hd == result.heatmap_data
        IN  /\ Len(hd) = 3
            /\ hd[1].type = "surface"
            /\ hd[1].data.clause_names = clause_names
            /\ \A r \in 1..3 : \A i \in 1..Len(clause_names) :
                   hd[1].data.z[r][i] = ExpectedIntensity(r, clause_names[i])
            /\ hd[3] = ExpectedMesh
            /\ "pca" \in raised => hd[2] = ScatterPlaceholder

\* the PCA of the scatter cloud raised on three or more sentences, a
\* category was detected, and the mesh is the lattice
C5_Witness ==
    /\ Returned
    /\ IsSuccessResult(result)
    /\ "pca" \in raised
    /\ Len(sentences) >= 3
    /\ detected_clauses # <<>>
    /\ result.heatmap_data[3] = LatticeMesh(clause_names)

(***************************************************************************)
(* Keyword matching as the claims state it: a keyword is a                 *)
(* case-insensitive substring of the sentence.                             *)
(***************************************************************************)
OccursIgnoringCase(s, kw) ==
    \E i \in 1..Len(s) :
        /\ i + Len(kw) - 1 <= Len(s)
        /\ \A j \in 1..Len(kw) : LowerChar(s[i + j - 1]) = LowerChar(kw[j])

\* the sentences, in sentence order, that contain a keyword of the category
SentencesWithKeyword(clause) ==
    SelectSeq(sentences, LAMBDA s :
        \E k \in 1..Len(keywords(clause)) : OccursIgnoringCase(s, keywords(clause)[k]))

\* the matches held for a category, none if it is not detected
DetectedFor(clause) == DictGet(detected_clauses, clause, <<>>)

\* clause detection has just finished in this call (no later step changes
\* detected_clauses)
AfterDetection == pc = "risk"

\* the embedding-based detection raised and its except clause ran
FellBack == AfterDetection /\ raised \cap {"encode", "similarity"} # {}

(***************************************************************************)
(* C6.  Without an embedder a success result still has three heatmaps,     *)
(* and for each of the six categories the matches are exactly the          *)
(* sentences, in sentence order, that contain one of its keywords as a     *)
(* case-insensitive substring.                                             *)
(***************************************************************************)
C6_KeywordFallbackWithoutEmbedder ==
    Returned /\ "status" \in DOMAIN result /\ ~UseEmbedder =>
        /\ Len(result.heatmap_data) = 3
        /\ \A c \in 1..Len(clauses) : DetectedFor(clauses[c]) = SentencesWithKeyword(clauses[c])
        /\ \A i \in 1..Len(result.detected_clauses) :
               result.detected_clauses[i][2] =
                   Len(SentencesWithKeyword(result.detected_clauses[i][1]))

\* without an embedder, contract.pdf has two Termination matches, whose
\* keyword is written in capitals in the text
C6_Witness ==
    /\ Returned
    /\ IsSuccessResult(result)
    /\ ~UseEmbedder
    /\ pdf_path = "contract.pdf"
    /\ Len(DetectedFor("Termination")) = 2
    /\ ~Contains(DetectedFor("Termination")[1], keywords("Termination")[1])

(***************************************************************************)
(* C7.  As claimed: when the similarity computation raises for one         *)
(* category, every category whose similarity computation worked keeps its  *)
(* embedding-based matches.                                                *)
(***************************************************************************)
C7_OtherCategoriesKeepEmbeddingMatches ==
    FellBack =>
        \A i \in 1..Len(embedding_matched) :
            DetectedFor(embedding_matched[i][1]) = embedding_matched[i][2]

(***************************************************************************)
(* C7, amended.  The fallback is applied to all categories at once: when   *)
(* the sentence encoding or the similarity computation of any category     *)
(* raises, keyword matching is run for all six categories, and every       *)
(* category with at least one keyword match gets exactly its keyword       *)
(* matches, also when its own similarity computation had worked; a         *)
(* category without a keyword match keeps what the embedding loop had      *)
(* stored for it before the failure.                                       *)
(***************************************************************************)
\* what line 115 computed for the category, none if its turn never came
EmbeddingMatchesFor(clause) == DictGet(embedding_matched, clause, <<>>)

C7_FallbackCoversAllCategories ==
    FellBack =>
        \A c \in 1..Len(clauses) :
            LET byKeyword == SentencesWithKeyword(clauses[c])
            IN  DetectedFor(clauses[c]) =
                    IF byKeyword # <<>> THEN byKeyword ELSE EmbeddingMatchesFor(clauses[c])

\* the similarity raised after a category had embedding-based matches, and
\* the keyword loop replaced them by other sentences
C7_Witness ==
    /\ AfterDetection
    /\ "similarity" \in raised
    /\ \E i \in 1..Len(embedding_matched) :
           /\ embedding_matched[i][2] # <<>>
           /\ DetectedFor(embedding_matched[i][1]) # embedding_matched[i][2]

(***************************************************************************)
(* C8.  When the similarity computation raises during clause detection,    *)
(* the clause matches are those of keyword matching alone: a sentence is a *)
(* match of a category if and only if one of its keywords is a             *)
(* case-insensitive substring of it.                                       *)
(***************************************************************************)
C8_FallbackIsKeywordMatchingAlone ==
    FellBack =>
        \A c \in 1..Len(clauses) : DetectedFor(clauses[c]) = SentencesWithKeyword(clauses[c])

(***************************************************************************)
(* C9.  The sentence embeddings handed to generate_heatmap_data are never  *)
(* None and have one row per sentence; a placeholder has 384 columns.      *)
(***************************************************************************)
InHeatmapGeneration == pc \in {"scatter", "mesh", "assemble"}

C9_EmbeddingsForHeatmap ==
    InHeatmapGeneration =>
        /\ sentence_embeddings # NoneRecord
        /\ sentence_embeddings.rows = Len(sentences)
        /\ sentence_embeddings.kind = "random" => sentence_embeddings.cols = 384

\* the encoding raised in the detection and again in its except clause, so
\* the placeholder stands for the embeddings of three or more sentences
C9_Witness ==
    /\ InHeatmapGeneration
    /\ {"encode", "encode_again"} \subseteq raised
    /\ sentence_embeddings.kind = "random"
    /\ Len(sentences) >= 3

(***************************************************************************)
(* C10.  A document whose text has exactly 100 characters after whitespace *)
(* collapsing and trimming is accepted; one with 99 or fewer (or none)     *)
(* gets the insufficient-text error.                                       *)
(***************************************************************************)
\* the length of a text once every run of whitespace is one space and the
\* ends are trimmed: its other characters, and the runs between them
LengthWhenNormalized(raw) ==
    LET ink  == {i \in 1..Len(raw) : ~IsSpace(raw[i])}
        last == IF ink = {} THEN 0 ELSE CHOOSE i \in ink : \A j \in ink : j <= i
        runs == {i \in ink : i < last /\ IsSpace(raw[i + 1])}
    IN  Cardinality(ink) + Cardinality(runs)

\* the sufficiency test has just been passed (the summary is next), or the
\* call has returned after extraction ran
ExtractionDone ==
    /\ pc \in {"summarize", "done"}
    /\ raised \cap {"load_models", "extract_text_from_pdf"} = {}

\* the normalized length of the text of each readable sample document
NormalizedLengthOf ==
    [p \in ReadablePdfs |-> LengthWhenNormalized(PageText(Pages(p)))]

C10_HundredCharactersSuffice ==
    ExtractionDone =>
        LET n == NormalizedLengthOf[pdf_path]
            rejected == Returned /\ result = InsufficientTextResult
        IN  /\ n >= 100 => ~rejected
            /\ n <= 99 => rejected

\* exactly100.pdf, whose text has 102 characters before and 100 after
\* normalization, has passed the test
C10_Witness ==
    /\ pc = "summarize"
    /\ pdf_path = "exactly100.pdf"
    /\ Len(PageText(Pages(pdf_path))) > 100
    /\ Len(contract_text) = 100

(***************************************************************************)
(* C11.  Original statement: when extraction yields insufficient text, no  *)
(* NLP stage runs after the condition is detected, and none, model loading *)
(* included, has run before it.  load_models hands the pipelines to the    *)
(* locals summarizer and embedder, so the locals tell whether it has run.  *)
(***************************************************************************)
NoStageOutput ==
    /\ summary_result = NoneRecord
    /\ sentences = <<>>
    /\ sentence_embeddings = NoneRecord
    /\ detected_clauses = <<>>
    /\ embedding_matched = <<>>
    /\ risky_sentences = <<>>
    /\ risk_level = None
    /\ risks = <<>>
    /\ heatmap1 = NoneRecord
    /\ heatmap2 = NoneRecord
    /\ heatmap3 = NoneRecord

C11_NoNlpStageAtAll ==
    result = InsufficientTextResult =>
        /\ pc = "done"
        /\ NoStageOutput
        /\ summarizer = None
        /\ embedder = None

\* C11, amended: once the insufficient-text result is built the call is at
\* its return, no summary, sentence, embedding, clause match, risk or
\* heatmap has been computed, and the only step that follows is the return;
\* model loading, however, has already run before the check (line 67).
C11_StopsAfterCheckButModelsLoadedBefore ==
    [][result = InsufficientTextResult =>
          /\ pc = "done"
          /\ NoStageOutput
          /\ summarizer = "summarizer"
          /\ summarizer = _summarizer
          /\ embedder = _embedder
          /\ pc' = "idle"
          /\ UNCHANGED globals]_vars

C11_Witness ==
    /\ Returned
    /\ result = InsufficientTextResult
    /\ pdf_path = "only99.pdf"
    /\ Len(contract_text) = MinTextLen - 1
    /\ summarizer = "summarizer"
    /\ embedder = "embedder"

(***************************************************************************)
(* C12.  In every success result risk_level is 'HIGH RISK' when the number *)
(* n of risky sentences is 5 or more, 'MEDIUM RISK' when 2 <= n < 5 and    *)
(* 'LOW RISK' when n < 2, n being both the length of the returned list and *)
(* the number of distinct sentences that hold a risk phrase.               *)
(***************************************************************************)
Elements(q) == {q[i] : i \in 1..Len(q)}

\* every segment of every readable sample document
SampleSegments ==
    UNION {Elements(SplitSentences(Normalize(PageText(Pages(p))))) : p \in ReadablePdfs}

\* for each of them, the risk phrases it holds in any letter case
PhrasesHeldIn ==
    [s \in SampleSegments |->
        {k \in 1..Len(risk_phrases) : OccursIgnoringCase(s, risk_phrases[k])}]

PhrasesHeld(s) == PhrasesHeldIn[s]

HoldsRiskPhrase(s) == PhrasesHeld(s) # {}

RiskyCount ==
    Cardinality({sentences[i] : i \in {j \in 1..Len(sentences) : HoldsRiskPhrase(sentences[j])}})

C12_RiskLevelFromCount ==
    (Returned /\ IsSuccessResult(result)) =>
        LET n == Len(result.risky_sentences)
        IN  /\ n = RiskyCount
            /\ n >= 5 => result.risk_level = "HIGH RISK"
            /\ (2 <= n /\ n < 5) => result.risk_level = "MEDIUM RISK"
            /\ n < 2 => result.risk_level = "LOW RISK"

\* the three labels all occur, at both sides of the upper threshold
C12_Witness ==
    /\ Returned
    /\ IsSuccessResult(result)
    /\ pdf_path = "five.pdf"
    /\ Len(result.risky_sentences) = 5
    /\ result.risk_level = "HIGH RISK"

C12_WitnessMedium ==
    /\ Returned
    /\ IsSuccessResult(result)
    /\ Len(result.risky_sentences) = 4
    /\ result.risk_level = "MEDIUM RISK"

C12_WitnessLow ==
    /\ Returned
    /\ IsSuccessResult(result)
    /\ Len(result.risky_sentences) = 1
    /\ result.risk_level = "LOW RISK"

(***************************************************************************)
(* C13.  Original statement: for the two-sentence text "This agreement     *)
(* shall automatically renew without notice. Liability is capped at        *)
(* $1,000." risky_sentences contains both sentences, the first finding is  *)
(* Critical and risk_level is MEDIUM RISK.  The text is the only page of   *)
(* scenario.pdf; scenario_padded.pdf has it followed by a page with one    *)
(* more sentence, which holds no risk phrase.                              *)
(***************************************************************************)
ScenarioSentence1 == SubSeq(DocScenarioPage1, 1, 56)

ScenarioSentence2 == SubSeq(DocScenarioPage1, 58, 87)

ScenarioPdfs == {"scenario.pdf", "scenario_padded.pdf"}

C13_ScenarioBothRiskyMedium ==
    (Returned /\ pdf_path \in ScenarioPdfs /\ raised = {}) =>
        /\ IsSuccessResult(result)
        /\ {ScenarioSentence1, ScenarioSentence2} \subseteq Elements(result.risky_sentences)
        /\ result.risks[1].type = "Critical Risk"
        /\ result.risk_level = "MEDIUM RISK"

\* C13, amended: the text alone has 87 characters, so its analysis ends
\* with the insufficient-text error; with the extra page the analysis
\* succeeds, risky_sentences holds the first sentence only, its finding is
\* a Critical Risk and risk_level is LOW RISK (risky count 1).
C13_ScenarioOneRiskyLow ==
    (Returned /\ pdf_path \in ScenarioPdfs /\ raised \cap {"load_models", "summarizer"} = {}) =>
        IF pdf_path = "scenario.pdf"
        THEN /\ Len(contract_text) = 87
             /\ result = InsufficientTextResult
        ELSE /\ IsSuccessResult(result)
             /\ SubSeq(sentences, 1, 2) = <<ScenarioSentence1, ScenarioSentence2>>
             /\ result.risky_sentences = <<ScenarioSentence1>>
             /\ Len(result.risks) = 1
             /\ result.risks[1].type = "Critical Risk"
             /\ result.risks[1].description = ScenarioSentence1
             /\ result.risk_level = "LOW RISK"

C13_Witness ==
    /\ Returned
    /\ pdf_path = "scenario_padded.pdf"
    /\ IsSuccessResult(result)
    /\ result.risky_sentences = <<ScenarioSentence1>>
    /\ ScenarioSentence2 \in Elements(sentences)

C13_WitnessShort ==
    /\ Returned
    /\ pdf_path = "scenario.pdf"
    /\ result = InsufficientTextResult

(***************************************************************************)
(* C14.  Original statement: the segmenter discards a segment if and only  *)
(* if it has fewer than 20 characters; every segment of 20 or more is      *)
(* kept, in its original order.                                            *)
(***************************************************************************)
JustSegmented == pc = "detect"

KeptFrom(segs, n) == SelectSeq(segs, LAMBDA s : Len(s) >= n)

C14_KeepsTwentyOrMore ==
    JustSegmented => sentences = KeptFrom(SplitSentences(contract_text), 20)

\* C14, amended: a segment is discarded if and only if it has 20 characters
\* or fewer; the segments of 21 or more characters are the sentences, in
\* their original order.
C14_KeepsTwentyOneOrMore ==
    JustSegmented => sentences = KeptFrom(SplitSentences(contract_text), 21)

\* a segment of exactly 20 characters is dropped
C14_Witness ==
    /\ JustSegmented
    /\ pdf_path = "contract.pdf"
    /\ \E i \in 1..Len(SplitSentences(contract_text)) :
          /\ Len(SplitSentences(contract_text)[i]) = 20
          /\ SplitSentences(contract_text)[i] \notin Elements(sentences)
    /\ Len(sentences) = Len(SplitSentences(contract_text)) - 1

\* a segment of exactly 21 characters is kept
C14_WitnessKept ==
    /\ JustSegmented
    /\ \E i \in 1..Len(sentences) : Len(sentences[i]) = 21

(***************************************************************************)
(* C15.  risky_sentences contains a sentence if and only if it is one of   *)
(* the segmented sentences and holds, in any letter case, at least one of  *)
(* the seven risk phrases, and it contains each such sentence exactly      *)
(* once, also when the sentence occurs several times in the text or holds  *)
(* several phrases.                                                        *)
(***************************************************************************)
NoRepeats(q) == \A i, j \in 1..Len(q) : q[i] = q[j] => i = j

C15_RiskySentencesExactlyOnce ==
    (Returned /\ IsSuccessResult(result)) =>
        /\ Len(risk_phrases) = 7
        /\ NoRepeats(result.risky_sentences)
        /\ Elements(result.risky_sentences)
               = {s \in Elements(sentences) : PhrasesHeld(s) # {}}

\* a risky sentence that occurs twice in the text
C15_Witness ==
    /\ Returned
    /\ IsSuccessResult(result)
    /\ \E i, j \in 1..Len(sentences) :
          /\ i < j
          /\ sentences[i] = sentences[j]
          /\ sentences[i] \in Elements(result.risky_sentences)
    /\ \E s \in Elements(sentences) : s \notin Elements(result.risky_sentences)

\* a risky sentence that holds two phrases, and one whose phrase is in
\* capitals
C15_WitnessSeveralPhrases ==
    /\ Returned
    /\ IsSuccessResult(result)
    /\ \E s \in Elements(result.risky_sentences) : Cardinality(PhrasesHeld(s)) = 2
    /\ \E s \in Elements(result.risky_sentences) :
          \E k \in PhrasesHeld(s) : ~Contains(s, risk_phrases[k])

(***************************************************************************)
(* C16.  Each presented finding is classified from its sentence, the first *)
(* match deciding: Critical if the sentence holds 'automatically renew' or *)
(* 'without notice'; otherwise High if it holds 'no liability' or          *)
(* 'indemnify'; otherwise Caution; its category is 'Auto-Renewal' if the   *)
(* sentence holds 'renew' in any letter case, else 'Liability'.  The type  *)
(* field spells the first two severities 'Critical Risk' and 'High Risk'.  *)
(***************************************************************************)
CriticalIn ==
    [s \in SampleSegments |->
        \/ OccursIgnoringCase(s, <<"a", "u", "t", "o", "m", "a", "t", "i", "c", "a", "l", "l", "y", " ", "r", "e", "n", "e", "w">>)
        \/ OccursIgnoringCase(s, <<"w", "i", "t", "h", "o", "u", "t", " ", "n", "o", "t", "i", "c", "e">>)]

HighIn ==
    [s \in SampleSegments |->
        \/ OccursIgnoringCase(s, <<"n", "o", " ", "l", "i", "a", "b", "i", "l", "i", "t", "y">>)
        \/ OccursIgnoringCase(s, <<"i", "n", "d", "e", "m", "n", "i", "f", "y">>)]

RenewIn == [s \in SampleSegments |-> OccursIgnoringCase(s, <<"r", "e", "n", "e", "w">>)]

HoldsCritical(s) == CriticalIn[s]

HoldsHigh(s) == HighIn[s]

HoldsRenew(s) == RenewIn[s]

C16_FindingClassification ==
    (Returned /\ IsSuccessResult(result)) =>
        \A k \in 1..Len(result.risks) :
            LET f == result.risks[k]
                s == f.description
            IN  /\ HoldsCritical(s) => f.type = "Critical Risk"
                /\ (~HoldsCritical(s) /\ HoldsHigh(s)) => f.type = "High Risk"
                /\ (~HoldsCritical(s) /\ ~HoldsHigh(s)) => f.type = "Caution"
                /\ HoldsRenew(s) => f.category = "Auto-Renewal"
                /\ ~HoldsRenew(s) => f.category = "Liability"

\* one result with a finding that holds a Critical and a High phrase, a
\* High one, a Caution one, and both categories
C16_Witness ==
    /\ Returned
    /\ IsSuccessResult(result)
    /\ \E k \in 1..Len(result.risks) :
          /\ HoldsCritical(result.risks[k].description)
          /\ HoldsHigh(result.risks[k].description)
          /\ result.risks[k].type = "Critical Risk"
    /\ \E k \in 1..Len(result.risks) : result.risks[k].type = "High Risk"
    /\ \E k \in 1..Len(result.risks) :
          /\ result.risks[k].type = "Caution"
          /\ result.risks[k].category = "Auto-Renewal"
    /\ \E k \in 1..Len(result.risks) :
          /\ result.risks[k].type = "Caution"
          /\ result.risks[k].category = "Liability"

(***************************************************************************)
(* C17.  The presented findings are the first min(10, n) elements of the   *)
(* risky-sentence sequence, one finding per sentence in the same order,    *)
(* while all n risky sentences are returned as risky_sentences, counted    *)
(* for risk_level and used for the colours of the risk cloud.              *)
(***************************************************************************)
HasRiskCloud(hd) == hd[2] # ScatterPlaceholder

C17_FindingsAreFirstTen ==
    (Returned /\ IsSuccessResult(result)) =>
        LET r == result.risky_sentences
            n == Len(r)
            hd == result.heatmap_data
        IN  /\ Len(result.risks) = (IF n < 10 THEN n ELSE 10)
            /\ \A k \in 1..Len(result.risks) : result.risks[k].description = r[k]
            /\ n = RiskyCount
            /\ result.risk_level = (IF n >= 5 THEN "HIGH RISK"
                                    ELSE IF n >= 2 THEN "MEDIUM RISK" ELSE "LOW RISK")
            /\ HasRiskCloud(hd) =>
                  /\ Len(hd[2].data.colors) = Len(sentences)
                  /\ \A i \in 1..Len(sentences) :
                        hd[2].data.colors[i] =
                            (IF sentences[i] \in Elements(r) THEN "red" ELSE "green")

\* eleven risky sentences: ten findings, and the eleventh is still red
C17_Witness ==
    /\ Returned
    /\ IsSuccessResult(result)
    /\ Len(result.risky_sentences) = 11
    /\ Len(result.risks) = 10
    /\ result.risks[10].description = result.risky_sentences[10]
    /\ HasRiskCloud(result.heatmap_data)
    /\ \E i \in 1..Len(sentences) :
          /\ sentences[i] = result.risky_sentences[11]
          /\ result.heatmap_data[2].data.colors[i] = "red"
    /\ \E i \in 1..Len(sentences) : result.heatmap_data[2].data.colors[i] = "green"

(***************************************************************************)
(* C18.  The Surface dataset's intensity grid has 3 rows and K columns, K  *)
(* being the number of categories in its clause list, and column i holds   *)
(* matchCount(i) x 0.3, x 0.6 and x 1.0 in rows 0, 1 and 2; when no        *)
(* category is detected the clause list is the fixed six categories and    *)
(* the grid is 3 x 6 and entirely zero.  Intensities are in tenths, and    *)
(* matchCount is the count the result reports for the category.            *)
(***************************************************************************)
MatchCount(name) ==
    LET at == {i \in 1..Len(result.detected_clauses) : result.detected_clauses[i][1] = name}
    IN  IF at = {} THEN 0 ELSE result.detected_clauses[CHOOSE i \in at : TRUE][2]

C18_SurfaceGrid ==
    (Returned /\ IsSuccessResult(result)) =>
        LET surface == result.heatmap_data[1].data
            K == Len(surface.clause_names)
        IN  /\ Len(surface.z) = 3
            /\ \A r \in 1..3 : Len(surface.z[r]) = K
            /\ \A i \in 1..K :
                  /\ surface.z[1][i] = MatchCount(surface.clause_names[i]) * 3
                  /\ surface.z[2][i] = MatchCount(surface.clause_names[i]) * 6
                  /\ surface.z[3][i] = MatchCount(surface.clause_names[i]) * 10
            /\ result.detected_clauses = <<>> =>
                  /\ surface.clause_names =
                         <<"Payment Terms", "Termination", "Confidentiality",
                           "Data Usage", "Auto Renewal", "Liability">>
                  /\ \A r \in 1..3 : \A i \in 1..6 : surface.z[r][i] = 0

\* a grid of fewer than six columns with a category matched twice
C18_Witness ==
    /\ Returned
    /\ IsSuccessResult(result)
    /\ Len(result.heatmap_data[1].data.clause_names) \in 2..5
    /\ \E i \in 1..Len(result.heatmap_data[1].data.clause_names) :
          /\ MatchCount(result.heatmap_data[1].data.clause_names[i]) = 2
          /\ result.heatmap_data[1].data.z[1][i] = 6
          /\ result.heatmap_data[1].data.z[2][i] = 12
          /\ result.heatmap_data[1].data.z[3][i] = 20

\* nothing detected: the 3 x 6 grid of zeros
C18_WitnessZero ==
    /\ Returned
    /\ IsSuccessResult(result)
    /\ result.detected_clauses = <<>>
    /\ Len(result.heatmap_data[1].data.z[3]) = 6

(***************************************************************************)
(* C19.  Original statement: when some but not all of the six categories   *)
(* are detected, the Surface dataset's clause list consists of the         *)
(* detected categories in detection order followed by the undetected       *)
(* categories.  Detection order is the order of the keys of the result's   *)
(* detected_clauses.                                                       *)
(***************************************************************************)
DetectedNames == [i \in 1..Len(result.detected_clauses) |-> result.detected_clauses[i][1]]

SomeButNotAllDetected ==
    /\ Returned
    /\ IsSuccessResult(result)
    /\ Len(result.detected_clauses) \in 1..5

SurfaceClauseList == result.heatmap_data[1].data.clause_names

C19_UndetectedAppended ==
    SomeButNotAllDetected =>
        LET d == Len(DetectedNames)
        IN  /\ Len(SurfaceClauseList) = 6
            /\ SubSeq(SurfaceClauseList, 1, d) = DetectedNames
            /\ Elements(SubSeq(SurfaceClauseList, d + 1, 6))
                   = Elements(clauses) \ Elements(DetectedNames)

\* C19, amended: the clause list then consists of the detected categories
\* only, in detection order; no undetected category is in it.
C19_DetectedOnly ==
    SomeButNotAllDetected =>
        /\ SurfaceClauseList = DetectedNames
        /\ NoRepeats(SurfaceClauseList)
        /\ Elements(SurfaceClauseList) \subseteq Elements(clauses)
        /\ \A i \in 1..Len(SurfaceClauseList) : MatchCount(SurfaceClauseList[i]) > 0

\* two categories detected, in an order that is not the order of the
\* category table
C19_Witness ==
    /\ SomeButNotAllDetected
    /\ SurfaceClauseList = <<"Termination", "Payment Terms">>
    /\ Len(result.heatmap_data[1].data.z[1]) = 2

(***************************************************************************)
(* C20.  The Surface dataset is a function of the clause match counts: a   *)
(* second run of the generator on clause matches with the same categories  *)
(* and counts gives the Surface dataset of the first run, whatever the     *)
(* sentences, their embeddings, the risky sentences and the embedder are   *)
(* in the two runs.                                                        *)
(***************************************************************************)
InSecondRun == first_run # NoneRecord

CloudProjected ==
    /\ Returned
    /\ IsSuccessResult(result)
    /\ Len(sentences) > 0
    /\ "pca" \notin raised

Ellipsis == <<".", ".", ".">>

C21_CloudFollowsSentenceOrder ==
    CloudProjected =>
        LET d == result.heatmap_data[2].data
            n == Len(sentences)
        IN  /\ result.heatmap_data[2].type = "scatter3d"
            /\ DOMAIN d.x = 1..n /\ DOMAIN d.y = 1..n /\ DOMAIN d.z = 1..n
            /\ DOMAIN d.colors = 1..n /\ DOMAIN d.texts = 1..n
            /\ \A i \in 1..n :
                  /\ <<d.x[i], d.y[i], d.z[i]>> = << <<"pc1", i>>, <<"pc2", i>>, <<"pc3", i>> >>
                  /\ d.colors[i] = "red" <=>
                        \E k \in 1..Len(result.risky_sentences) :
                            result.risky_sentences[k] = sentences[i]
                  /\ d.colors[i] \in {"red", "green"}
                  /\ Len(sentences[i]) <= 50 => d.texts[i] = sentences[i]
                  /\ Len(sentences[i]) > 50 =>
                        /\ Len(d.texts[i]) = 53
                        /\ \A c \in 1..50 : d.texts[i][c] = sentences[i][c]
                        /\ <<d.texts[i][51], d.texts[i][52], d.texts[i][53]>> = Ellipsis

\* a projected cloud with a red and a green point, a sentence of exactly
\* 50 characters labelled by itself and a longer one cut to 50 and '...'
C21_Witness ==
    /\ CloudProjected
    /\ \E i, j \in 1..Len(sentences) :
          /\ Len(sentences[i]) = 50
          /\ result.heatmap_data[2].data.texts[i] = sentences[i]
          /\ result.heatmap_data[2].data.colors[i] = "red"
          /\ result.heatmap_data[2].data.colors[j] = "green"

C21_WitnessCut ==
    /\ CloudProjected
    /\ \E i \in 1..Len(sentences) :
          /\ Len(sentences[i]) = 56
          /\ Len(result.heatmap_data[2].data.texts[i]) = 53

(***************************************************************************)
(* C22.  In every returned heatmap list the scatter3d dataset has          *)
(* non-empty x, y, z, colors and texts arrays of one common length: the    *)
(* number of sentences when projection succeeds, and the fixed 5-point     *)
(* placeholder (coordinates 0..4 on each axis, colors alternating          *)
(* red/green starting with red) when projection fails, there are too few   *)
(* sentences, or the embeddings are absent or empty.                       *)
(***************************************************************************)
NoProjection == "pca" \in raised \/ Len(sentences) < 3

ZeroToFour == <<Num(0), Num(1), Num(2), Num(3), Num(4)>>

C22_ScatterShape ==
    (Returned /\ IsSuccessResult(result)) =>
        LET h == result.heatmap_data[2]
            d == h.data
            n == Len(d.x)
        IN  /\ h.type = "scatter3d"
            /\ n > 0
            /\ Len(d.y) = n /\ Len(d.z) = n /\ Len(d.colors) = n /\ Len(d.texts) = n
            /\ IF NoProjection
               THEN /\ d.x = ZeroToFour /\ d.y = ZeroToFour /\ d.z = ZeroToFour
                    /\ d.colors = <<"red", "green", "red", "green", "red">>
               ELSE /\ n = Len(sentences)
                    /\ d.x # ZeroToFour

\* two sentences are too few for three components: the placeholder
C22_Witness ==
    /\ Returned
    /\ IsSuccessResult(result)
    /\ Len(sentences) = 2
    /\ Len(result.heatmap_data[2].data.x) = 5
    /\ Len(result.heatmap_data[2].data.texts) = 5

\* no sentence at all, hence empty embeddings: nothing is projected and
\* nothing raises
C22_WitnessEmpty ==
    /\ Returned
    /\ IsSuccessResult(result)
    /\ Len(contract_text) >= MinTextLen
    /\ sentences = <<>>
    /\ "pca" \notin raised
    /\ result.heatmap_data[2] = ScatterPlaceholder

\* a failed projection of enough sentences
C22_WitnessFailed ==
    /\ Returned
    /\ IsSuccessResult(result)
    /\ Len(sentences) >= 3
    /\ "pca" \in raised
    /\ result.heatmap_data[2] = ScatterPlaceholder

\* a projection of more than five sentences
C22_WitnessProjected ==
    /\ Returned
    /\ IsSuccessResult(result)
    /\ Len(sentences) = 12
    /\ Len(result.heatmap_data[2].data.x) = 12
    /\ Len(result.heatmap_data[2].data.colors) = 12

(***************************************************************************)
(* C23.  When the embedding provider is unavailable, the Mesh dataset      *)
(* places the category with index i in the clause list at                  *)
(* (i mod 3, (i div 3) mod 3, i div 9), labels the points with the clause  *)
(* list in the same order, and any two different categories receive        *)
(* different coordinates.  The lattice is the mesh of every result whose   *)
(* lattice layout did not raise.                                           *)
(***************************************************************************)
LatticeLaidOut ==
    /\ Returned
    /\ IsSuccessResult(result)
    /\ ~UseEmbedder
    /\ "lattice" \notin raised

C23_LatticeMesh ==
    LatticeLaidOut =>
        LET h == result.heatmap_data[3]
            d == h.data
            K == Len(clause_names)
            at(k) == <<d.x[k], d.y[k], d.z[k]>>
        IN  /\ h.type = "mesh3d"
            /\ d.clause_names = clause_names
            /\ d.clause_names = result.heatmap_data[1].data.clause_names
            /\ DOMAIN d.x = 1..K /\ DOMAIN d.y = 1..K /\ DOMAIN d.z = 1..K
            /\ \A i \in 0..(K - 1) :
                  at(i + 1) = <<Num(i % 3), Num((i \div 3) % 3), Num(i \div 9)>>
            /\ \A i, j \in 1..K : i # j => at(i) # at(j)

\* six categories: the lattice reaches its second row
C23_Witness ==
    /\ LatticeLaidOut
    /\ Len(clause_names) = 6
    /\ result.heatmap_data[3].data.x[4] = Num(0)
    /\ result.heatmap_data[3].data.y[4] = Num(1)
    /\ result.heatmap_data[3].data.y[1] = Num(0)

\* two detected categories: a lattice of two points, where the projection
\* would have failed
C23_WitnessTwo ==
    /\ LatticeLaidOut
    /\ Len(clause_names) = 2
    /\ Len(result.heatmap_data[3].data.x) = 2

(***************************************************************************)
(* C24.  The 6-point Mesh placeholder is substituted exactly when the      *)
(* embedder is available and the projection of the clause names failed     *)
(* (the lattice layout is not tried then), or the embedder is unavailable  *)
(* and the lattice layout failed; when substituted it has coordinates 0..5 *)
(* on each axis and exactly 6 clause-name labels (the clause list          *)
(* truncated to 6, or padded to 6 with 'Additional Clause'), so the Mesh   *)
(* dataset's x, y, z and clause_names always have one common length.       *)
(***************************************************************************)
MeshSubstituted == Returned /\ IsSuccessResult(result) /\ heatmap3 = NoneRecord

ZeroToFive == <<Num(0), Num(1), Num(2), Num(3), Num(4), Num(5)>>

\* the placeholder's shape, and the common length of every mesh
MeshShape ==
    (Returned /\ IsSuccessResult(result)) =>
        LET d == result.heatmap_data[3].data
            K == Len(clause_names)
        IN  /\ result.heatmap_data[3].type = "mesh3d"
            /\ Len(d.y) = Len(d.x) /\ Len(d.z) = Len(d.x)
            /\ Len(d.clause_names) = Len(d.x)
            /\ MeshSubstituted =>
                  /\ d.x = ZeroToFive /\ d.y = ZeroToFive /\ d.z = ZeroToFive
                  /\ Len(d.clause_names) = 6
                  /\ \A k \in 1..6 :
                        d.clause_names[k] =
                            (IF k <= K THEN clause_names[k] ELSE "Additional Clause")
            /\ ~MeshSubstituted => Len(d.x) = K /\ d.x # ZeroToFive

C24_PlaceholderAfterFailedLayout ==
    /\ MeshSubstituted <=>
          /\ Returned
          /\ IsSuccessResult(result)
          /\ \/ UseEmbedder /\ "mesh" \in raised
             \/ ~UseEmbedder /\ "lattice" \in raised
    /\ (Returned /\ UseEmbedder) => "lattice" \notin raised
    /\ MeshShape

\* the claim as stated: a substituted placeholder means the lattice layout
\* has failed too
C24_PlaceholderOnlyAfterLattice ==
    /\ MeshSubstituted => "lattice" \in raised
    /\ MeshShape

\* the projection of two clause names fails with the embedder present: the
\* placeholder, padded with four names, and no lattice attempt
C24_Witness ==
    /\ MeshSubstituted
    /\ UseEmbedder
    /\ "mesh" \in raised
    /\ "lattice" \notin raised
    /\ Len(clause_names) = 2
    /\ result.heatmap_data[3].data.clause_names[2] = clause_names[2]
    /\ result.heatmap_data[3].data.clause_names[3] = "Additional Clause"
    /\ result.heatmap_data[3].data.clause_names[6] = "Additional Clause"
    /\ result.heatmap_data[3].data.x = ZeroToFive

\* the lattice layout fails for six names: the placeholder carries them all
C24_WitnessLattice ==
    /\ MeshSubstituted
    /\ ~UseEmbedder
    /\ "lattice" \in raised
    /\ Len(clause_names) = 6
    /\ result.heatmap_data[3].data.clause_names = clause_names

(***************************************************************************)
(* C25.  Across any sequence and any interleaving of analyze_contract      *)
(* calls, including two threads making the first call concurrently, each   *)
(* model (summarizer, embedder) is constructed at most once per process    *)
(* and every later call reuses the cached instance: every call that        *)
(* returns models returns the first construction of each.                  *)
(***************************************************************************)
C25_ConstructedAtMostOnce ==
    /\ constructed.summarizer <= 1
    /\ constructed.embedder <= 1
    /\ \A t \in Threads : \A k \in 1..Len(thread[t].returned) :
          LET r == thread[t].returned[k]
          IN  r # NoneRecord =>
                  /\ r.summarizer = 1
                  /\ r.embedder = (IF SENTENCE_TRANSFORMERS_AVAILABLE THEN 1 ELSE 0)

\* two threads are past the test of line 26 before either has assigned
BothPastTheTest ==
    /\ _summarizer = None
    /\ \A t \in {1, 2} : thread[t].pc = "construct_summarizer"

(***************************************************************************)
(* C26.  For every stored heatmap list handed to generate_contract_pdf     *)
(* (empty, shorter than 3, or containing any combination of types), the    *)
(* list of heatmaps rendered into the PDF has exactly 3 entries and        *)
(* contains one dataset of each of the types 'surface', 'scatter3d' and    *)
(* 'mesh3d'.                                                               *)
(***************************************************************************)
Rendered == pdf_pc = "rendered"

C26_ThreeEntries ==
    Rendered =>
        /\ Len(heatmaps_to_show) = 3
        /\ (\A i, j \in 1..Len(pdf_heatmap_data) :
               (i < j /\ j <= 3) => pdf_heatmap_data[i].type # pdf_heatmap_data[j].type)
              => TypesOf(heatmaps_to_show) = {"surface", "scatter3d", "mesh3d"}

\* a lone mesh is completed by both placeholders
C26_CompletedList ==
    /\ Rendered
    /\ Len(pdf_heatmap_data) = 1
    /\ pdf_heatmap_data[1].type = "mesh3d"
    /\ heatmaps_to_show = <<SurfaceFallback, pdf_heatmap_data[1], ScatterPlaceholder>>

(***************************************************************************)
(* C27.  The file-state polling loop of process_meeting_audio returns the  *)
(* timeout error once polling has failed 10 times in a row: only           *)
(* consecutive failures count toward the limit, and the loop gives up at   *)
(* the 10th such failure.                                                  *)
(***************************************************************************)
TimedOut == poll_pc = "returned" /\ poll_result = TimedOutResult

C27_GivesUpAtTenthFailureInARow ==
    /\ TimedOut => failed_in_a_row = 10
    /\ failed_in_a_row = 10 => TimedOut

\* what the loop does: it gives up at the 11th failed poll since the
\* upload, in a row or not
C27_GivesUpAtEleventhFailure ==
    /\ TimedOut <=> retry_count = RetryLimit + 1
    /\ failed_in_a_row <= retry_count

\* ten failed polls in a row, and the loop goes on to the analysis
TenInARowThenActive ==
    /\ poll_pc = "analyze"
    /\ retry_count = 10
    /\ observed = "ACTIVE"

\* the timeout after a single failed poll in a row
TimedOutAfterOneInARow == TimedOut /\ failed_in_a_row = 1

(***************************************************************************)
(* C28.  The file-state polling loop of process_meeting_audio terminates   *)
(* in every run: for every sequence of remote file states (PROCESSING,     *)
(* ACTIVE, FAILED or any other value) and polling errors, it eventually    *)
(* either observes ACTIVE and proceeds or returns an error, and a FAILED   *)
(* state ends processing with an error.                                    *)
(***************************************************************************)
LoopEnded == poll_pc \in {"analyze", "returned"}

ReturnedError == poll_pc = "returned" /\ poll_result # NoneRecord

C28_PollingTerminates ==
    /\ <>LoopEnded
    /\ [](observed = "FAILED" => <>ReturnedError)

\* the first half alone: the loop ends
C28_LoopEnds == <>LoopEnded

\* the second half alone: FAILED leads to an error
C28_FailedEndsInError == observed = "FAILED" ~> ReturnedError

\* the loop is still polling after a PROCESSING state was seen with no
\* failed poll so far
StillProcessing ==
    /\ poll_pc = "polling"
    /\ observed = "PROCESSING"
    /\ retry_count = 0

(***************************************************************************)
(* C29.  When two analyze_contract_endpoint requests run concurrently with *)
(* uploads of the same sanitized filename, each request analyzes the bytes *)
(* it uploaded itself and neither request's saved file is overwritten or   *)
(* deleted by the other before its own analysis has read it.               *)
(***************************************************************************)
C29_EachRequestReadsItsOwnUpload ==
    \A c \in Clients :
        /\ request[c].pc = "saved" => uploads[request[c].filepath] = c
        /\ request[c].status \in {"success", "error"} =>
              /\ request[c].status = "success"
              /\ request[c].bytes = c

\* one request has analyzed the bytes the other uploaded
AnalyzedTheOthersBytes ==
    \E c \in Clients : request[c].status = "success" /\ request[c].bytes \notin {0, c}

\* one request found its file removed by the other
FoundItsFileRemoved ==
    \E c \in Clients : request[c].pc = "analyzed" /\ request[c].status = "error"

(***************************************************************************)
(* C30.  After any sequence of register, login, logout, analyze,           *)
(* view_report and download_report requests by several users, view_report  *)
(* and download_report return a report's data or PDF only to a logged-in   *)
(* session whose user_id equals the user_id stored with that report; for   *)
(* any other session they return a redirect to login or a 404.             *)
(***************************************************************************)
\* the session the response was made under is logged in as the user
\* stored with the requested report
OwnerAsked(r) ==
    /\ "user_id" \in DOMAIN r.session
    /\ r.report_id \in 1..Len(reports)
    /\ reports[r.report_id].user_id = r.session.user_id

C30_WitnessOwner ==
    /\ response # NoneRecord
    /\ response.status = 200
    /\ response.route = "download_report"
    /\ response.session.user_id = 2
    /\ response.body[2].user_id = 2
    /\ Len(reports) = 2
    /\ reports[1].user_id = 1

\* a client that has logged out is sent to the login page
C30_WitnessLoggedOut ==
    /\ response # NoneRecord
    /\ response.status = 302
    /\ Len(reports) > 0

=============================================================================
